---- MODULE Spec2Model ----
(***************************************************************************)
(* The staking dashboard component StakeContent                            *)
(* (src/ui/components/StakeContent.tsx): its React state, the asynchronous *)
(* readers fetchZcBalance and fetchVaultData with the bounded retry of the *)
(* user-position read, the handlers handleDeposit and handleRedeem, and    *)
(* the fire-once timers they schedule.                                     *)
(*                                                                         *)
(* One step of the model is one synchronous segment of the code: the code  *)
(* that runs between two awaits (or from an event to the first await).     *)
(* What an awaited network read returns is an input of the step.           *)
(*                                                                         *)
(* Token amounts are kept in raw micro-units: the state field the code     *)
(* computes as Number(raw) / 1_000_000 holds raw here, so the 1 of         *)
(* setExchangeRate(1) is Micro.                                            *)
(***************************************************************************)
EXTENDS Integers, Sequences, FiniteSets, TLC

VARIABLES
  wallet,    \* useWallet().wallet: NoWallet or a wallet's public key
  provider,  \* window.solana || window.solflare is present
  ui,        \* the component's useState fields
  runs,      \* the refreshes in flight, by slot: one fetchZcBalance call and
             \* one fetchVaultData chain each, with the closure they run in
  timers,    \* pending setTimeout callbacks
  h,         \* the handleDeposit / handleRedeem invocation in flight
  ntx,       \* handler invocations (clicks of the action button) so far
  nedit,     \* edits of the form so far
  nerr,      \* failed reads so far, the user-position reads apart
  toast,     \* the last showToast message
  script,    \* the run of a test script: its configuration, where it stands,
             \* the calls it has made, the transaction it is building
  req,       \* a request to the market-data route and the response to it
  resp       \* an API response and what the type guards have said of it

vars ==
  <<wallet, provider, ui, runs, timers, h, ntx, nedit, nerr, toast, script, req,
    resp>>

(***************************************************************************)
(* Bounds of the model.                                                    *)
(***************************************************************************)
MaxRefresh == 1   \* refreshes in flight at a time (a refresh that has ended
                  \* leaves its slot to the next one)
MaxTx == 1        \* handler invocations
MaxEdits == 2     \* edits of the form: mode switches, typing, the MAX button
MaxErrors == 1    \* failing reads other than the reads of the user's position
MaxOverlap == 2   \* refreshes in flight at a time where chains may overlap

(***************************************************************************)
(* Constants of the program.                                               *)
(***************************************************************************)
maxRetries == 3          \* fetchVaultData(retryCount = 0, maxRetries = 3)
RetryBaseMs == 1000      \* Math.pow(2, retryCount) * 1000
PostTxDelayMs == 8000    \* setTimeout(..., 8000)
Micro == 1000000         \* 1_000_000 raw units per token
BpsPerPercent == 100     \* Math.floor(redeemPercentNum * 100)
BpsDenominator == 10000  \* / BigInt(10000)
MaxPercent == 100        \* redeemPercentNum > 100

NoWallet == "none"
Wallets == {"A", "B"}

(***************************************************************************)
(* Text inputs and parseFloat.  A text is a sequence of characters; a      *)
(* parsed number is NaN or a decimal kept in thousandths (Scale), which    *)
(* is exact for the inputs of the model (at most three fraction digits).   *)
(***************************************************************************)
Digits == {"0", "1", "2", "3", "4", "5", "6", "7", "8", "9"}

DigitVal(c) ==
  CASE c = "0" -> 0 [] c = "1" -> 1 [] c = "2" -> 2 [] c = "3" -> 3
    [] c = "4" -> 4 [] c = "5" -> 5 [] c = "6" -> 6 [] c = "7" -> 7
    [] c = "8" -> 8 [] c = "9" -> 9

RECURSIVE DigitRun(_, _)
\* the number of consecutive digits of s from index i on
DigitRun(s, i) ==
  IF i <= Len(s) /\ s[i] \in Digits THEN 1 + DigitRun(s, i + 1) ELSE 0

RECURSIVE DigitsValue(_, _, _)
\* the decimal value of the n digits of s that start at index i
DigitsValue(s, i, n) ==
  IF n = 0 THEN 0 ELSE DigitsValue(s, i, n - 1) * 10 + DigitVal(s[i + n - 1])

RECURSIVE Pow10(_)
Pow10(n) == IF n = 0 THEN 1 ELSE 10 * Pow10(n - 1)

Scale == Pow10(3)

RECURSIVE Pow2(_)
Pow2(n) == IF n = 0 THEN 1 ELSE 2 * Pow2(n - 1)

NaN == [nan |-> TRUE, v |-> 0]
Num(x) == [nan |-> FALSE, v |-> x]

\* parseFloat: an optional sign, digits, an optional point and digits; the
\* longest such prefix is the number and what follows it is ignored; NaN
\* when the prefix holds no digit.
parseFloat(s) ==
  LET neg  == Len(s) >= 1 /\ s[1] = "-"
      i0   == IF neg THEN 2 ELSE 1
      n1   == DigitRun(s, i0)
      dot  == i0 + n1 <= Len(s) /\ s[i0 + n1] = "."
      n2   == IF dot THEN DigitRun(s, i0 + n1 + 1) ELSE 0
      k    == IF n2 > 3 THEN 3 ELSE n2
      whole == DigitsValue(s, i0, n1)
      frac == DigitsValue(s, i0 + n1 + 1, k) * Pow10(3 - k)
      mag  == whole * Scale + frac
  IN  IF n1 + n2 = 0 THEN NaN ELSE Num(IF neg THEN 0 - mag ELSE mag)

\* /^\d*\.?\d*$/.test(value)
MatchesDecimal(s) ==
  /\ \A i \in 1..Len(s) : s[i] \in Digits \cup {"."}
  /\ Cardinality({i \in 1..Len(s) : s[i] = "."}) <= 1

\* JavaScript comparisons with a number that may be NaN: false on NaN
LeqNum(p, x) == ~p.nan /\ p.v <= x * Scale
GtNum(p, x) == ~p.nan /\ p.v > x * Scale
\* !x for a number: true for NaN and for 0
Falsy(p) == p.nan \/ p.v = 0

\* the texts a user may try to enter in the two inputs
AmountTexts == {<<>>, <<"5">>, <<".">>, <<"x">>}
PercentTexts == {<<>>, <<"5", "0">>, <<"0">>, <<"1", "5", "0">>, <<".">>}

(***************************************************************************)
(* The component's state after the first render.                          *)
(***************************************************************************)
InitUi ==
  [ loading |-> FALSE, modalMode |-> "deposit", amount |-> <<>>,
    redeemPercent |-> <<>>, zcBalance |-> 0, vaultBalance |-> 0,
    userShareBalance |-> 0, userShareValue |-> 0, exchangeRate |-> 0,
    zcTotalSupply |-> 0, refreshing |-> FALSE,
    postTransactionRefreshing |-> FALSE, withdrawalsEnabled |-> TRUE ]

Slots == 1..MaxRefresh

\* a slot no refresh has used yet
NoRun ==
  [ w |-> NoWallet, prog |-> FALSE, origin |-> "none", zc |-> "done",
    pc |-> "done", rc |-> 0, attempts |-> 0, delays |-> <<>>,
    wroteBal |-> FALSE, wroteVal |-> FALSE, lastFail |-> "none",
    end |-> "none" ]

\* no test script is run and no request is served by the component
NoScript == [name |-> "none"]
NoReq == [pc |-> "none", served |-> 0]

NoResp == [r |-> "none"]

NoHandler ==
  [ kind |-> "none", pc |-> "idle", w |-> NoWallet, prog |-> FALSE,
    num |-> 0, total |-> 0, shares |-> 0, submits |-> 0 ]

Init ==
  /\ wallet = NoWallet
  /\ provider = FALSE
  /\ ui = InitUi
  /\ runs = [r \in Slots |-> NoRun]
  /\ timers = {}
  /\ h = NoHandler
  /\ ntx = 0
  /\ nedit = 0
  /\ nerr = 0
  /\ toast = "none"
  /\ script = NoScript
  /\ req = NoReq
  /\ resp = NoResp

(***************************************************************************)
(* What the awaited network reads may return.                              *)
(***************************************************************************)
Failed == [ok |-> FALSE, v |-> 0]
Got(x) == [ok |-> TRUE, v |-> x]
Reads(S) == {Failed} \cup {Got(x) : x \in S}

\* a read other than those of the user's position may fail while the model's
\* budget of such failures lasts
Counted(failed) ==
  /\ failed => nerr < MaxErrors
  /\ nerr' = IF failed THEN nerr + 1 ELSE nerr

VaultStateReads == {"enabled", "disabled", "missing", "error"}
VaultStateFailed(res) == res \in {"missing", "error"}
ShareAmounts == {0, 3}             \* raw amount of a share token account
ZcAmounts == {5}                   \* raw amount of a ZC token account
TotalAssetsValues == {9}           \* totalAssets()
OneShareValues == {2}              \* previewRedeem(1_000_000)
UserValueValues == {6}             \* previewRedeem(the user's shares)
SupplyValues == {12}               \* the supply of a parsed mint account
\* getParsedAccountInfo(ZC_TOKEN_MINT): throws, or returns data that is or is
\* not parsed
MintReads ==
  {[k |-> "error", v |-> 0], [k |-> "unparsed", v |-> 0]}
    \cup {[k |-> "parsed", v |-> x] : x \in SupplyValues}

(***************************************************************************)
(* A refresh: fetchZcBalance() and fetchVaultData() called together, by    *)
(* the wallet effect or by the post-transaction timer, in the closure of   *)
(* the render that created them (its wallet w and whether it had a         *)
(* program).  zc and pc are the awaits the two calls stand at; rc is the   *)
(* retryCount of the running (or last) fetchVaultData attempt.  History:   *)
(* attempts begun, delays of the retry timers scheduled, whether the       *)
(* attempt has set userShareBalance / userShareValue, how the user read    *)
(* of the attempt failed, and how the attempt ended.                       *)
(***************************************************************************)
NewRun(w, prog, origin) ==
  [ w |-> w, prog |-> prog, origin |-> origin,
    zc |-> IF w = NoWallet THEN "done" ELSE "account",
    pc |-> IF ~prog \/ w = NoWallet THEN "done" ELSE "vaultState",
    rc |-> 0, attempts |-> 1, delays |-> <<>>,
    wroteBal |-> FALSE, wroteVal |-> FALSE, lastFail |-> "none",
    end |-> IF ~prog \/ w = NoWallet THEN "guard" ELSE "running" ]

\* the refresh has ended: both calls returned and no retry is scheduled
Ended(run) == run.zc = "done" /\ run.pc = "done" /\ run.end # "retry"

\* the slot the next refresh takes
FreeSlots == {r \in DOMAIN runs : Ended(runs[r])}
NextSlot == CHOOSE r \in FreeSlots : \A q \in FreeSlots : r <= q

\* Promise.all([fetchVaultData(), fetchZcBalance()]) has resolved: the
\* fetchZcBalance call and the first fetchVaultData attempt have both ended
Joined(run) == run.zc = "done" /\ (run.rc > 0 \/ run.pc = "done")

\* setPostTransactionRefreshing(false) once the refresh of the 8 s timer has
\* joined in this step
AfterJoin(u, old, new) ==
  IF old.origin = "postTx" /\ ~Joined(old) /\ Joined(new)
  THEN [u EXCEPT !.postTransactionRefreshing = FALSE] ELSE u

\* variants of the retry policy that C9 and C1 tell apart from the code's:
\* one more retry, and a linear back-off
ShouldRetry_inclusive(retryCount) == retryCount <= maxRetries
RetryDelay_linear(retryCount) == (retryCount + 1) * RetryBaseMs

\* if (retryCount < maxRetries)
ShouldRetry(retryCount) == retryCount < maxRetries

\* Math.pow(2, retryCount) * 1000
RetryDelay(retryCount) == Pow2(retryCount) * RetryBaseMs

Timer(kind, run, rc, delay, w, prog) ==
  [kind |-> kind, run |-> run, rc |-> rc, delay |-> delay, w |-> w, prog |-> prog]

(***************************************************************************)
(* The wallet effect (useEffect on [wallet, fetchZcBalance,               *)
(* fetchVaultData]): it runs when the wallet changes and calls both        *)
(* readers when a wallet is connected.  Each call runs to its first await: *)
(* fetchZcBalance to getAccount, fetchVaultData through                    *)
(* setRefreshing(true) and the program/wallet guard to getAccountInfo.     *)
(***************************************************************************)
\* a variant of the effect without its condition, which C8 tells apart
EffectRuns_always(w) == TRUE

\* if (wallet) { fetchZcBalance(); fetchVaultData(); }
EffectRuns(w) == w # NoWallet

\* the state setters of the two calls up to their first await
StartUi(u, run) ==
  [u EXCEPT !.zcBalance = IF run.w = NoWallet THEN 0 ELSE @,
            !.refreshing = (run.pc # "done")]

\* a variant of the effect with a cleanup that clears the pending timers,
\* which C11 tells apart
WalletChange_cancels(w, prov) ==
  /\ w # wallet
  /\ wallet' = w
  /\ provider' = (w # NoWallet /\ prov)
  /\ IF EffectRuns(w)
     THEN /\ FreeSlots # {}
          /\ LET run == NewRun(w, prov, "effect")
             IN  /\ runs' = [runs EXCEPT ![NextSlot] = run]
                 /\ ui' = StartUi(ui, run)
     ELSE UNCHANGED <<runs, ui>>
  /\ timers' = {}
  /\ UNCHANGED <<resp, script, req, h, ntx, nedit, nerr, toast>>

WalletChange(w, prov) ==
  /\ w # wallet
  /\ wallet' = w
  /\ provider' = (w # NoWallet /\ prov)
  /\ IF EffectRuns(w)
     THEN /\ FreeSlots # {}
          /\ LET run == NewRun(w, prov, "effect")
             IN  /\ runs' = [runs EXCEPT ![NextSlot] = run]
                 /\ ui' = StartUi(ui, run)
     ELSE UNCHANGED <<runs, ui>>
  /\ UNCHANGED <<resp, script, req, timers, h, ntx, nedit, nerr, toast>>

(***************************************************************************)
(* fetchZcBalance after its awaits.                                        *)
(***************************************************************************)
\* a variant of the catch of fetchZcBalance that also clears the user's
\* shares, which C10 tells apart
ZcAccountUi_clearsShares(u, res) ==
  IF res.ok THEN [u EXCEPT !.zcBalance = res.v]
  ELSE [u EXCEPT !.zcBalance = 0, !.userShareBalance = 0]

\* getAccount(connection, userTokenAccount) returned or threw
ZcAccountUi(u, res) ==
  IF res.ok THEN [u EXCEPT !.zcBalance = res.v] ELSE [u EXCEPT !.zcBalance = 0]

\* connection.getParsedAccountInfo(ZC_TOKEN_MINT) returned or threw
ZcMintUi(u, res) ==
  CASE res.k = "parsed" -> [u EXCEPT !.zcTotalSupply = res.v]
    [] res.k = "unparsed" -> u
    [] res.k = "error" -> [u EXCEPT !.zcBalance = 0]

fetchZcBalance_account(r) ==
  /\ runs[r].zc = "account"
  /\ \E res \in Reads(ZcAmounts) :
       LET new == [runs[r] EXCEPT !.zc = IF res.ok THEN "mint" ELSE "done"]
       IN  /\ runs' = [runs EXCEPT ![r] = new]
           /\ ui' = AfterJoin(ZcAccountUi(ui, res), runs[r], new)
           /\ Counted(~res.ok)
  /\ UNCHANGED <<resp, script, req, wallet, provider, timers, h, ntx, nedit, toast>>

fetchZcBalance_mint(r) ==
  /\ runs[r].zc = "mint"
  /\ \E res \in MintReads :
       LET new == [runs[r] EXCEPT !.zc = "done"]
       IN  /\ runs' = [runs EXCEPT ![r] = new]
           /\ ui' = AfterJoin(ZcMintUi(ui, res), runs[r], new)
           /\ Counted(res.k = "error")
  /\ UNCHANGED <<resp, script, req, wallet, provider, timers, h, ntx, nedit, toast>>

(***************************************************************************)
(* fetchVaultData after its awaits.  The four reads of an attempt follow   *)
(* one another: vault state, total assets, the value of one share, the     *)
(* user's share account (and, for a positive balance, its value).          *)
(***************************************************************************)
\* the vault state account was read, was missing, or the read threw
VaultStateUi(u, res) == [u EXCEPT !.withdrawalsEnabled = (res = "enabled")]

\* a variant whose catch leaves the balance as it is, which C24 tells apart
TotalAssetsUi_keeps(u, res) ==
  IF res.ok THEN [u EXCEPT !.vaultBalance = res.v] ELSE u

\* totalAssets().view() returned or threw
TotalAssetsUi(u, res) == [u EXCEPT !.vaultBalance = IF res.ok THEN res.v ELSE 0]

\* a variant that always shows the fallback rate, which C12 tells apart
ExchangeRateUi_fallback(u, res) == [u EXCEPT !.exchangeRate = Micro]

\* previewRedeem(oneShare).view() returned or threw
ExchangeRateUi(u, res) ==
  [u EXCEPT !.exchangeRate = IF res.ok THEN res.v ELSE Micro]

fetchVaultData_vaultState(r) ==
  /\ runs[r].pc = "vaultState"
  /\ \E res \in VaultStateReads :
       ui' = VaultStateUi(ui, res) /\ Counted(VaultStateFailed(res))
  /\ runs' = [runs EXCEPT ![r].pc = "totalAssets"]
  /\ UNCHANGED <<resp, script, req, wallet, provider, timers, h, ntx, nedit, toast>>

fetchVaultData_totalAssets(r) ==
  /\ runs[r].pc = "totalAssets"
  /\ \E res \in Reads(TotalAssetsValues) :
       ui' = TotalAssetsUi(ui, res) /\ Counted(~res.ok)
  /\ runs' = [runs EXCEPT ![r].pc = "rate"]
  /\ UNCHANGED <<resp, script, req, wallet, provider, timers, h, ntx, nedit, toast>>

fetchVaultData_rate(r) ==
  /\ runs[r].pc = "rate"
  /\ \E res \in Reads(OneShareValues) :
       ui' = ExchangeRateUi(ui, res) /\ Counted(~res.ok)
  /\ runs' = [runs EXCEPT ![r].pc = "account"]
  /\ UNCHANGED <<resp, script, req, wallet, provider, timers, h, ntx, nedit, toast>>

\* The catch of the user read: any throw of getAccount or of the user's
\* previewRedeem lands here.  A retry is scheduled and the attempt returns,
\* or both fields are set to 0; finally setRefreshing(false).
CatchUserRead(u, run, r, kind) ==
  LET failed == [run EXCEPT !.pc = "done", !.lastFail = kind]
  IN  IF ShouldRetry(run.rc)
      THEN [ ui |-> [u EXCEPT !.refreshing = FALSE],
             run |-> [failed EXCEPT !.end = "retry",
                                    !.delays = Append(@, RetryDelay(run.rc))],
             timers |-> {Timer("retry", r, run.rc + 1, RetryDelay(run.rc),
                               run.w, run.prog)} ]
      ELSE [ ui |-> [u EXCEPT !.userShareBalance = 0, !.userShareValue = 0,
                              !.refreshing = FALSE],
             run |-> [failed EXCEPT !.end = "settled", !.wroteBal = TRUE,
                                    !.wroteVal = TRUE],
             timers |-> {} ]

\* getAccount(connection, userShareAccount) returned: setUserShareBalance,
\* then previewRedeem for a positive balance and setUserShareValue(0) for 0
AccountRead(u, run, amount) ==
  IF amount > 0
  THEN [ ui |-> [u EXCEPT !.userShareBalance = amount],
         run |-> [run EXCEPT !.pc = "preview", !.wroteBal = TRUE],
         timers |-> {} ]
  ELSE [ ui |-> [u EXCEPT !.userShareBalance = amount, !.userShareValue = 0,
                          !.refreshing = FALSE],
         run |-> [run EXCEPT !.pc = "done", !.end = "ok", !.wroteBal = TRUE,
                             !.wroteVal = TRUE],
         timers |-> {} ]

\* the user's previewRedeem returned: setUserShareValue
PreviewRead(u, run, assets) ==
  [ ui |-> [u EXCEPT !.userShareValue = assets, !.refreshing = FALSE],
    run |-> [run EXCEPT !.pc = "done", !.end = "ok", !.wroteVal = TRUE],
    timers |-> {} ]

Commit(r, nx) ==
  /\ runs' = [runs EXCEPT ![r] = nx.run]
  /\ ui' = AfterJoin(nx.ui, runs[r], nx.run)
  /\ timers' = timers \cup nx.timers
  /\ UNCHANGED <<resp, script, req, wallet, provider, h, ntx, nedit, toast>>

\* budgeted: the failures of these reads count in the model's budget too
fetchVaultData_account(r, budgeted) ==
  /\ runs[r].pc = "account"
  /\ \E res \in Reads(ShareAmounts) :
       /\ Commit(r, IF res.ok THEN AccountRead(ui, runs[r], res.v)
                    ELSE CatchUserRead(ui, runs[r], r, "absent"))
       /\ Counted(budgeted /\ ~res.ok)

fetchVaultData_preview(r, budgeted) ==
  /\ runs[r].pc = "preview"
  /\ \E res \in Reads(UserValueValues) :
       /\ Commit(r, IF res.ok THEN PreviewRead(ui, runs[r], res.v)
                    ELSE CatchUserRead(ui, runs[r], r, "other"))
       /\ Counted(budgeted /\ ~res.ok)

(***************************************************************************)
(* Timers.  A retry timer calls fetchVaultData(retryCount + 1, maxRetries) *)
(* of the closure that scheduled it; the post-transaction timer calls      *)
(* fetchVaultData() and fetchZcBalance() of the handler's closure.         *)
(***************************************************************************)
\* the attempt a retry timer starts: setRefreshing(true), the guard (which
\* the closure passed before), then the vault state read
NextAttempt(run, rc) ==
  [run EXCEPT !.pc = "vaultState", !.rc = rc, !.attempts = @ + 1,
              !.wroteBal = FALSE, !.wroteVal = FALSE, !.lastFail = "none",
              !.end = "running"]

RetryTimerFires(t) ==
  /\ t.kind = "retry"
  /\ timers' = timers \ {t}
  /\ runs' = [runs EXCEPT ![t.run] = NextAttempt(@, t.rc)]
  /\ ui' = [ui EXCEPT !.refreshing = TRUE]
  /\ UNCHANGED <<resp, script, req, wallet, provider, h, ntx, nedit, nerr, toast>>

PostTxTimerFires(t) ==
  /\ t.kind = "postTx"
  /\ FreeSlots # {}
  /\ timers' = timers \ {t}
  /\ LET run == NewRun(t.w, t.prog, "postTx")
         u == StartUi(ui, run)
     IN  /\ runs' = [runs EXCEPT ![NextSlot] = run]
         /\ ui' = IF Joined(run)
                  THEN [u EXCEPT !.postTransactionRefreshing = FALSE] ELSE u
  /\ UNCHANGED <<resp, script, req, wallet, provider, h, ntx, nedit, nerr, toast>>

(***************************************************************************)
(* The form: the mode toggle, the two text inputs with their onChange      *)
(* filters, the MAX button of the redeem form and the action button.       *)
(***************************************************************************)
\* an edit of the form, within the model's budget of edits
Edit == nedit < MaxEdits /\ nedit' = nedit + 1

setModalMode(m) ==
  /\ m # ui.modalMode
  /\ Edit
  /\ ui' = [ui EXCEPT !.modalMode = m]
  /\ UNCHANGED <<resp, script, req, wallet, provider, runs, timers, h, ntx, nerr, toast>>

\* the deposit input's onChange: value === "" || /^\d*\.?\d*$/.test(value)
AmountAccepted(value) == value = <<>> \/ MatchesDecimal(value)

\* the redeem input's onChange:
\* value === "" || (/^\d*\.?\d*$/.test(value) && parseFloat(value) <= 100)
PercentAccepted(value) ==
  value = <<>> \/ (MatchesDecimal(value) /\ LeqNum(parseFloat(value), MaxPercent))

\* typing in the deposit input (rendered in deposit mode, disabled={!wallet})
AmountInput(value) ==
  /\ ui.modalMode = "deposit"
  /\ wallet # NoWallet
  /\ AmountAccepted(value)
  /\ value # ui.amount
  /\ Edit
  /\ ui' = [ui EXCEPT !.amount = value]
  /\ UNCHANGED <<resp, script, req, wallet, provider, runs, timers, h, ntx, nerr, toast>>

\* typing in the redeem input (disabled={!withdrawalsEnabled || !wallet})
PercentInput(value) ==
  /\ ui.modalMode = "redeem"
  /\ wallet # NoWallet
  /\ ui.withdrawalsEnabled
  /\ PercentAccepted(value)
  /\ value # ui.redeemPercent
  /\ Edit
  /\ ui' = [ui EXCEPT !.redeemPercent = value]
  /\ UNCHANGED <<resp, script, req, wallet, provider, runs, timers, h, ntx, nerr, toast>>

\* the MAX button of the redeem form: if (userShareBalance > 0)
\* setRedeemPercent('100')
PercentMax ==
  /\ ui.modalMode = "redeem"
  /\ ui.userShareBalance > 0
  /\ ui.redeemPercent # <<"1", "0", "0">>
  /\ Edit
  /\ ui' = [ui EXCEPT !.redeemPercent = <<"1", "0", "0">>]
  /\ UNCHANGED <<resp, script, req, wallet, provider, runs, timers, h, ntx, nerr, toast>>

\* a variant of the disabled attribute that ignores the vault state, which
\* C3 tells apart
ActionDisabled_ignoresVault(u) ==
  \/ u.loading
  \/ IF u.modalMode = "deposit"
     THEN u.amount = <<>> \/ LeqNum(parseFloat(u.amount), 0)
     ELSE \/ u.redeemPercent = <<>>
          \/ LeqNum(parseFloat(u.redeemPercent), 0)
          \/ u.userShareBalance = 0

\* the disabled attribute of the action button
ActionDisabled(u) ==
  \/ u.loading
  \/ IF u.modalMode = "deposit"
     THEN u.amount = <<>> \/ LeqNum(parseFloat(u.amount), 0)
     ELSE \/ u.redeemPercent = <<>>
          \/ LeqNum(parseFloat(u.redeemPercent), 0)
          \/ ~u.withdrawalsEnabled
          \/ u.userShareBalance = 0

(***************************************************************************)
(* handleDeposit and handleRedeem.  An invocation reads the state of the   *)
(* render it was created in; it returns after a toast when its input or    *)
(* the wallet is not valid, and otherwise runs through its awaits.         *)
(***************************************************************************)
\* if (!depositAmount || depositAmount <= 0)
DepositRejected(amount) ==
  LET depositAmount == parseFloat(amount)
  IN  Falsy(depositAmount) \/ LeqNum(depositAmount, 0)

\* a variant of the validation without the upper bound, which C5 tells apart
RedeemRejected_noUpperBound(redeemPercent) ==
  LET redeemPercentNum == parseFloat(redeemPercent)
  IN  Falsy(redeemPercentNum) \/ LeqNum(redeemPercentNum, 0)

\* if (!redeemPercentNum || redeemPercentNum <= 0 || redeemPercentNum > 100)
RedeemRejected(redeemPercent) ==
  LET redeemPercentNum == parseFloat(redeemPercent)
  IN  \/ Falsy(redeemPercentNum)
      \/ LeqNum(redeemPercentNum, 0)
      \/ GtNum(redeemPercentNum, MaxPercent)

\* a variant that takes the basis points for a percentage, which C6 tells
\* apart
SharesToRedeem_perCent(totalShares, redeemPercentNum) ==
  LET bps == (redeemPercentNum * BpsPerPercent) \div Scale
  IN  (totalShares * bps) \div BpsPerPercent

\* (totalShares * BigInt(Math.floor(redeemPercentNum * 100))) / BigInt(10000)
\* for the number the handler accepted, given in units of 1 / Scale
SharesToRedeem(totalShares, redeemPercentNum) ==
  LET bps == (redeemPercentNum * BpsPerPercent) \div Scale
  IN  (totalShares * bps) \div BpsDenominator

\* the body of a handler from its call to its first await (or its return);
\* one handler runs at a time, the button being disabled while loading
Invoke(kind) ==
  /\ h.kind = "none"
  /\ ntx < MaxTx
  /\ ntx' = ntx + 1
  /\ UNCHANGED <<resp, script, req, wallet, provider, runs, timers, nedit, nerr>>
  /\ IF (kind = "deposit" /\ DepositRejected(ui.amount))
        \/ (kind = "redeem" /\ RedeemRejected(ui.redeemPercent))
     THEN toast' = "invalid" /\ UNCHANGED <<ui, h>>
     ELSE IF wallet = NoWallet \/ ~provider
     THEN toast' = "nowallet" /\ UNCHANGED <<ui, h>>
     ELSE /\ ui' = [ui EXCEPT !.loading = TRUE]
          /\ h' = [ kind |-> kind,
                    pc |-> IF kind = "redeem" THEN "account" ELSE "build",
                    w |-> wallet, prog |-> provider,
                    num |-> parseFloat(IF kind = "redeem" THEN ui.redeemPercent
                                       ELSE ui.amount).v,
                    total |-> 0, shares |-> 0, submits |-> 0 ]
          /\ UNCHANGED toast

\* a click of the action button, which is rendered for a connected wallet
Click ==
  /\ wallet # NoWallet
  /\ ~ActionDisabled(ui)
  /\ Invoke(IF ui.modalMode = "deposit" THEN "deposit" ELSE "redeem")

\* a variant of the catch that schedules the refresh all the same, which C7
\* tells apart
TxFailed_refreshes ==
  /\ toast' = "failed"
  /\ ui' = [ui EXCEPT !.loading = FALSE]
  /\ timers' = timers \cup {Timer("postTx", 0, ntx, PostTxDelayMs, h.w, h.prog)}
  /\ h' = NoHandler
  /\ UNCHANGED <<resp, script, req, wallet, provider, runs, ntx, nedit, nerr>>

\* the catch and the finally of a handler: the error is logged and shown,
\* setLoading(false)
TxFailed ==
  /\ toast' = "failed"
  /\ ui' = [ui EXCEPT !.loading = FALSE]
  /\ h' = NoHandler
  /\ UNCHANGED <<resp, script, req, wallet, provider, runs, timers, ntx, nedit, nerr>>

Advance(pc, more) ==
  /\ h' = [more EXCEPT !.pc = pc]
  /\ UNCHANGED <<resp, script, req, wallet, provider, ui, runs, timers, ntx, nedit, nerr, toast>>

\* handleRedeem: getAccount(connection, userShareAccount) returned or threw
handleRedeem_account(amounts) ==
  /\ h.kind = "redeem" /\ h.pc = "account"
  /\ \E res \in Reads(amounts) :
       IF res.ok
       THEN Advance("build", [h EXCEPT !.total = res.v,
                                       !.shares = SharesToRedeem(res.v, h.num)])
       ELSE TxFailed

\* the instruction list is assembled: the associated token account is looked
\* up (and its creation added when the lookup throws), then
\* program.methods.deposit / redeem (...).instruction() returned or threw
handler_build ==
  /\ h.kind # "none" /\ h.pc = "build"
  /\ \E ok \in BOOLEAN : IF ok THEN Advance("blockhash", h) ELSE TxFailed

\* connection.getLatestBlockhash() returned or threw
handler_blockhash ==
  /\ h.kind # "none" /\ h.pc = "blockhash"
  /\ \E ok \in BOOLEAN : IF ok THEN Advance("send", h) ELSE TxFailed

\* walletProvider.signAndSendTransaction(transaction) returned a signature
\* or threw (the user declined, or the send failed)
handler_send ==
  /\ h.kind # "none" /\ h.pc = "send"
  /\ \E ok \in BOOLEAN :
       IF ok THEN Advance("confirm", [h EXCEPT !.submits = @ + 1]) ELSE TxFailed

\* after the confirmation: the success toast, the input is cleared, and the
\* refresh is scheduled; finally setLoading(false)
Confirmed ==
  /\ toast' = "success"
  /\ ui' = [ui EXCEPT !.amount = IF h.kind = "deposit" THEN <<>> ELSE @,
                      !.redeemPercent = IF h.kind = "redeem" THEN <<>> ELSE @,
                      !.postTransactionRefreshing = TRUE,
                      !.loading = FALSE]
  /\ timers' = timers \cup {Timer("postTx", 0, ntx, PostTxDelayMs, h.w, h.prog)}
  /\ h' = NoHandler
  /\ UNCHANGED <<resp, script, req, wallet, provider, runs, ntx, nedit, nerr>>

\* connection.confirmTransaction(...) returned or threw
handler_confirm ==
  /\ h.kind # "none" /\ h.pc = "confirm"
  /\ \E ok \in BOOLEAN : IF ok THEN Confirmed ELSE TxFailed

(***************************************************************************)
(* The component: every event and every continuation of an await, in an    *)
(* environment where at most MaxErrors reads fail.                         *)
(***************************************************************************)
\* Wallets are interchangeable: the first one to connect is called A.
Connectable ==
  {NoWallet, "A"} \cup {w \in Wallets : wallet = "A" \/ h.w = "A"}

Next ==
  \/ \E w \in Connectable, prov \in BOOLEAN : WalletChange(w, prov)
  \/ \E r \in Slots : fetchZcBalance_account(r)
  \/ \E r \in Slots : fetchZcBalance_mint(r)
  \/ \E r \in Slots : fetchVaultData_vaultState(r)
  \/ \E r \in Slots : fetchVaultData_totalAssets(r)
  \/ \E r \in Slots : fetchVaultData_rate(r)
  \/ \E r \in Slots : fetchVaultData_account(r, TRUE)
  \/ \E r \in Slots : fetchVaultData_preview(r, TRUE)
  \/ \E t \in timers : RetryTimerFires(t)
  \/ \E t \in timers : PostTxTimerFires(t)
  \/ \E m \in {"deposit", "redeem"} : setModalMode(m)
  \/ \E value \in AmountTexts : AmountInput(value)
  \/ \E value \in PercentTexts : PercentInput(value)
  \/ PercentMax
  \/ Click
  \/ handleRedeem_account(ShareAmounts)
  \/ handler_build
  \/ handler_blockhash
  \/ handler_send
  \/ handler_confirm

Spec == Init /\ [][Next]_vars

\* The continuations and the retry timers of the refresh in slot r, as the
\* component runs them.
ComponentRefreshStep(r) ==
  \/ fetchZcBalance_account(r)
  \/ fetchZcBalance_mint(r)
  \/ fetchVaultData_vaultState(r)
  \/ fetchVaultData_totalAssets(r)
  \/ fetchVaultData_rate(r)
  \/ fetchVaultData_account(r, TRUE)
  \/ fetchVaultData_preview(r, TRUE)
  \/ \E t \in timers : t.run = r /\ RetryTimerFires(t)

\* The event loop runs every continuation and every due timer callback.  The
\* post-transaction timer waits for a slot in the model only, hence strong
\* fairness for it.
SpecFair ==
  /\ Spec
  /\ \A r \in Slots : WF_vars(ComponentRefreshStep(r))
  /\ SF_vars(\E t \in timers : PostTxTimerFires(t))

(***************************************************************************)
(* The refresh alone: the wallet effect, the two readers and the retry     *)
(* timers, with any number of failures of the reads of the user position.  *)
(***************************************************************************)
NextRefresh ==
  \/ \E w \in Connectable, prov \in BOOLEAN : WalletChange(w, prov)
  \/ \E r \in Slots : fetchZcBalance_account(r)
  \/ \E r \in Slots : fetchZcBalance_mint(r)
  \/ \E r \in Slots : fetchVaultData_vaultState(r)
  \/ \E r \in Slots : fetchVaultData_totalAssets(r)
  \/ \E r \in Slots : fetchVaultData_rate(r)
  \/ \E r \in Slots : fetchVaultData_account(r, FALSE)
  \/ \E r \in Slots : fetchVaultData_preview(r, FALSE)
  \/ \E t \in timers : RetryTimerFires(t)

SpecRefresh == Init /\ [][NextRefresh]_vars

\* The event loop runs the continuation of every read that has returned or
\* thrown and the callback of every timer that is due, and every read is
\* taken to return or throw.
RefreshStep(r) ==
  \/ fetchZcBalance_account(r)
  \/ fetchZcBalance_mint(r)
  \/ fetchVaultData_vaultState(r)
  \/ fetchVaultData_totalAssets(r)
  \/ fetchVaultData_rate(r)
  \/ fetchVaultData_account(r, FALSE)
  \/ fetchVaultData_preview(r, FALSE)
  \/ \E t \in timers : t.run = r /\ RetryTimerFires(t)

SpecRefreshFair == SpecRefresh /\ \A r \in Slots : WF_vars(RefreshStep(r))

(***************************************************************************)
(* The handlers alone, called on any state of the form: the texts of the   *)
(* two inputs are drawn from all the texts below, those the onChange       *)
(* filters keep out of the state included.                                 *)
(***************************************************************************)
RawTexts ==
  { <<>>, <<"0">>, <<"5", "0">>, <<"1", "0", "0">>, <<"1", "5", "0">>,
    <<"x">>, <<".">>, <<"-", "5">>, <<"0", ".", "0", "0", "1">>,
    <<"3", "3", ".", "3", "3">>, <<"1", "0", "0", ".", "0", "0", "1">>,
    <<"9", "9", ".", "9", "9", "9">> }
RedeemTotals == {0, 1, 3, 9999, 100001}

InitInvoke ==
  /\ wallet \in {NoWallet, "A"}
  /\ provider \in BOOLEAN
  /\ \E a \in {<<>>, <<"5">>}, p \in RawTexts, m \in {"deposit", "redeem"},
        b \in ShareAmounts :
        ui = [InitUi EXCEPT !.amount = a, !.redeemPercent = p, !.modalMode = m,
                            !.userShareBalance = b]
  /\ runs = [r \in Slots |-> NoRun]
  /\ timers = {}
  /\ h = NoHandler
  /\ ntx = 0
  /\ nedit = 0
  /\ nerr = 0
  /\ toast = "none"
  /\ script = NoScript
  /\ req = NoReq
  /\ resp = NoResp

handleDeposit == Invoke("deposit")
handleRedeem == Invoke("redeem")

NextInvoke ==
  \/ handleDeposit
  \/ handleRedeem
  \/ handleRedeem_account(RedeemTotals)
  \/ handler_build
  \/ handler_blockhash
  \/ handler_send
  \/ handler_confirm

SpecInvoke == InitInvoke /\ [][NextInvoke]_vars

(***************************************************************************)
(* The rate and the value of a position: the reads of fetchVaultData from  *)
(* the exchange rate on, against a vault whose previewRedeem pays          *)
(* total assets / total shares per share, rounded down.  Each read         *)
(* observes the vault as it is when the read is served; the run remembers  *)
(* what its two previewRedeem reads observed.                              *)
(***************************************************************************)
VaultStates ==
  { [assets |-> 1, supply |-> 1], [assets |-> 3, supply |-> 2],
    [assets |-> 4, supply |-> 3], [assets |-> 2, supply |-> 1],
    [assets |-> 400, supply |-> 399] }
NoVault == [assets |-> 0, supply |-> 0]

\* the vault program's previewRedeem(shares)
previewRedeem(v, shares) == (shares * v.assets) \div v.supply

\* share balances: whole shares, in raw units
ShareBalances == {0, Micro, 2 * Micro, 5 * Micro}

ValueRun(run) == run @@ [rateAt |-> NoVault, valueAt |-> NoVault]

InitValue ==
  /\ wallet = "A"
  /\ provider = TRUE
  /\ ui = [InitUi EXCEPT !.refreshing = TRUE]
  /\ runs = [r \in Slots |->
              IF r = 1
              THEN ValueRun([NewRun("A", TRUE, "effect") EXCEPT !.zc = "done",
                                                                !.pc = "rate"])
              ELSE ValueRun(NoRun)]
  /\ timers = {}
  /\ h = NoHandler
  /\ ntx = 0
  /\ nedit = 0
  /\ nerr = 0
  /\ toast = "none"
  /\ script = NoScript
  /\ req = NoReq
  /\ resp = NoResp

\* previewRedeem(oneShare).view() returned from vault v, or threw
ValueRate(r) ==
  /\ runs[r].pc = "rate"
  /\ \E v \in VaultStates \cup {NoVault} :
       /\ ui' = ExchangeRateUi(ui, IF v = NoVault THEN Failed
                                   ELSE Got(previewRedeem(v, Micro)))
       /\ runs' = [runs EXCEPT ![r].pc = "account", ![r].rateAt = v]
  /\ UNCHANGED <<resp, script, req, wallet, provider, timers, h, ntx, nedit, nerr, toast>>

\* getAccount(connection, userShareAccount) returned or threw
ValueAccount(r) ==
  /\ runs[r].pc = "account"
  /\ \E res \in Reads(ShareBalances) :
       Commit(r, IF res.ok THEN AccountRead(ui, runs[r], res.v)
                 ELSE CatchUserRead(ui, runs[r], r, "absent"))
  /\ UNCHANGED nerr

\* previewRedeem(the user's shares).view() returned from vault v, or threw
ValuePreview(r) ==
  /\ runs[r].pc = "preview"
  /\ \E v \in VaultStates \cup {NoVault} :
       LET seen == [runs[r] EXCEPT !.valueAt = v]
       IN  Commit(r, IF v = NoVault THEN CatchUserRead(ui, seen, r, "other")
                     ELSE PreviewRead(ui, seen,
                                      previewRedeem(v, ui.userShareBalance)))
  /\ UNCHANGED nerr

NextValue ==
  \/ \E r \in Slots : fetchVaultData_vaultState(r)
  \/ \E r \in Slots : fetchVaultData_totalAssets(r)
  \/ \E r \in Slots : ValueRate(r)
  \/ \E r \in Slots : ValueAccount(r)
  \/ \E r \in Slots : ValuePreview(r)
  \/ \E t \in timers : RetryTimerFires(t)

SpecValue == InitValue /\ [][NextValue]_vars

(***************************************************************************)
(* The test scripts.  A script runs once, from the environment it is       *)
(* started in (the set of variables that are set) and the SIMULATE_ONLY    *)
(* its source is edited to, through its awaits to the end of the process.  *)
(* calls lists the network calls it has made, in order; ixs the            *)
(* instructions it has added to its transaction, in order.                 *)
(***************************************************************************)
ScriptStart(name, simulateOnly, env) ==
  [ name |-> name, pc |-> "start", simulateOnly |-> simulateOnly, env |-> env,
    connection |-> FALSE, calls |-> <<>>, ixs |-> <<>>, signed |-> FALSE, claimed |-> "none",
    simulated |-> "none", exit |-> 0,
    existing |-> FALSE, nativeX |-> FALSE, nativeY |-> FALSE,
    decimalsX |-> 0, decimalsY |-> 0, x |-> 0, y |-> 0, totalX |-> 0,
    totalY |-> 0, percent |-> [int |-> 0, nano |-> 0], bps |-> 0,
    payerKey |-> "none", activeId |-> 0, positions |-> <<>>,
    liquidity |-> [position |-> "none", minBinId |-> 0, maxBinId |-> 0],
    signers |-> <<>> ]

\* the script makes a network call and waits for it at pc
Call(sc, what, pc) == [sc EXCEPT !.calls = Append(@, what), !.pc = pc]

\* the process ends with this exit code: process.exit(code), or the end of
\* the script with nothing pending (code 0); exit means nothing before
Exit(sc, code) == [sc EXCEPT !.pc = "done", !.exit = code]

ScriptStep(sc) ==
  /\ script' = sc
  /\ UNCHANGED <<wallet, provider, ui, runs, timers, h, ntx, nedit, nerr,
                 toast, req, resp>>

(***************************************************************************)
(* The fee-claim script (testFeeClaim).                                    *)
(***************************************************************************)
\* the two checks of the configuration pass
FeeClaimConfigured(sc) ==
  /\ "PAYER_PRIVATE_KEY" \in sc.env
  /\ ~(sc.simulateOnly /\ "RPC_URL" \notin sc.env)

\* a variant that takes any response for a successful one, which C19 tells
\* apart
ClaimSucceeded_anyResponse(res) == res # "throws"

\* if (!claimResponse.data.success) return, for a response that arrived
ClaimSucceeded(res) == res = "success"

\* from the start to the POST of /fee-claim/claim
feeClaim_start ==
  /\ script.name = "feeClaim" /\ script.pc = "start"
  /\ ScriptStep(IF FeeClaimConfigured(script)
                THEN Call(script, "POST /fee-claim/claim", "claim")
                ELSE Exit(script, 1))

\* after the signing: the simulation branch goes on to the balances of the
\* fee recipients (or, with none, to the simulation); the other branch is
\* process.exit(0), before the POST of /fee-claim/confirm that follows it in
\* the source
AfterSigning(sc, recipients) ==
  IF sc.simulateOnly
  THEN IF recipients > 0 THEN Call([sc EXCEPT !.connection = TRUE], "getBalance", "balance")
       ELSE Call([sc EXCEPT !.connection = TRUE], "simulateTransaction", "simulate")
  ELSE Exit(sc, 0)

\* the response to /fee-claim/claim arrived, or the request threw
feeClaim_claim ==
  /\ script.name = "feeClaim" /\ script.pc = "claim"
  /\ \E res \in {"success", "failure", "throws"}, recipients \in 0..1 :
       LET sc == [script EXCEPT !.claimed = res]
       IN  ScriptStep(IF res # "throws" /\ ClaimSucceeded(res)
                      THEN AfterSigning([sc EXCEPT !.signed = TRUE], recipients)
                      ELSE Exit(sc, 0))

\* connection.getBalance(recipient) returned or threw
feeClaim_balance ==
  /\ script.name = "feeClaim" /\ script.pc = "balance"
  /\ \E ok \in BOOLEAN :
       ScriptStep(IF ok THEN Call(script, "simulateTransaction", "simulate")
                  ELSE Exit(script, 0))

\* connection.simulateTransaction returned (with or without an error) or
\* threw: the script prints and ends in each case
feeClaim_simulate ==
  /\ script.name = "feeClaim" /\ script.pc = "simulate"
  /\ \E res \in {"ok", "err", "throws"} :
       ScriptStep(Exit([script EXCEPT !.simulated = res], 0))

(***************************************************************************)
(* What the two DLMM scripts share.  A decimal amount is its integer part  *)
(* and its fraction in billionths; a raw amount is                         *)
(* floor(amount * 10^decimals), for decimals up to MaxDecimals.            *)
(***************************************************************************)
MaxDecimals == 2

\* Math.floor(parseFloat(amount) * Math.pow(10, decimals))
ToRaw(amount, decimals) ==
  amount.int * Pow10(decimals) + amount.nano \div Pow10(9 - decimals)

\* which of the pool's two mints is the native mint: at most one of them
NativeMints == {<<FALSE, FALSE>>, <<TRUE, FALSE>>, <<FALSE, TRUE>>}

Ix(op, token) == [op |-> op, token |-> token]

\* a variant that submits whatever SIMULATE_ONLY says, which C14 tells apart
Submit_always(sc) == Call(sc, "sendRawTransaction", "send")

\* if (SIMULATE_ONLY) simulateTransaction else sendRawTransaction
Submit(sc) ==
  IF sc.simulateOnly THEN Call(sc, "simulateTransaction", "simulate")
  ELSE Call(sc, "sendRawTransaction", "send")

(***************************************************************************)
(* The DLMM deposit script (testDlmmDeposit).                              *)
(***************************************************************************)
DepositEnv ==
  {"RPC_URL", "DLMM_POOL_ADDRESS", "LP_OWNER_PRIVATE_KEY",
   "PROTOCOL_PRIVATE_KEY", "MANAGER_PRIVATE_KEY", "PAYER_PRIVATE_KEY",
   "DEPOSIT_TOKEN_X_AMOUNT", "DEPOSIT_TOKEN_Y_AMOUNT"}

binRange == 34  \* Number of bins on each side of active bin

\* the pool's active bin
ActiveIds == {34, 100}

\* the positions the LP owner holds in the pool, as the SDK lists them
UserPositions ==
  LET p1 == [id |-> "p1", lowerBinId |-> 10, upperBinId |-> 20]
      p2 == [id |-> "p2", lowerBinId |-> 30, upperBinId |-> 99]
  IN  {<<>>, <<p1>>, <<p2, p1>>}

\* the position the liquidity goes to and the strategy's bins: the first
\* position and its own bins, or a new one around the active bin
Liquidity(sc, positions) ==
  IF Len(positions) > 0
  THEN [position |-> positions[1].id,
        minBinId |-> positions[1].lowerBinId,
        maxBinId |-> positions[1].upperBinId]
  ELSE [position |-> "new",
        minBinId |-> sc.activeId - binRange,
        maxBinId |-> sc.activeId + binRange]

\* whose key the fee payer's is: PAYER_PRIVATE_KEY's, or the LP owner's
FeePayer(sc) ==
  IF "PAYER_PRIVATE_KEY" \in sc.env THEN sc.payerKey ELSE "lpOwner"

\* a variant in which the fee payer always signs, which C23 tells apart
LastSigners_withFeePayer(sc) == <<"lpOwner", "manager", "feePayer">>

\* partialSign(lpOwner), partialSign(manager), and of the fee payer if it
\* is neither
LastSigners(sc) ==
  <<"lpOwner", "manager">>
    \o (IF FeePayer(sc) \notin {"lpOwner", "manager"} THEN <<"feePayer">>
        ELSE <<>>)

\* the amounts the script is written with
DEPOSIT_TOKEN_X_AMOUNT == [int |-> 43289, nano |-> 778283000]

DEPOSIT_TOKEN_Y_AMOUNT == [int |-> 0, nano |-> 121121875]

\* a variant without the check of the manager's key, which C16 tells apart
DepositConfigured_noManager(env) ==
  /\ "RPC_URL" \in env
  /\ "DLMM_POOL_ADDRESS" \in env
  /\ ("LP_OWNER_PRIVATE_KEY" \in env \/ "PROTOCOL_PRIVATE_KEY" \in env)

\* none of the four throws of the validation is taken
DepositConfigured(env) ==
  /\ "RPC_URL" \in env
  /\ "DLMM_POOL_ADDRESS" \in env
  /\ ("LP_OWNER_PRIVATE_KEY" \in env \/ "PROTOCOL_PRIVATE_KEY" \in env)
  /\ "MANAGER_PRIVATE_KEY" \in env

\* a variant without the sync-native instruction, which C15 tells apart
TransferIxs_noSync(token, native, raw) ==
  IF raw = 0 THEN <<>>
  ELSE IF native THEN <<Ix("systemTransfer", token)>>
  ELSE <<Ix("splTransfer", token)>>

\* the manager's transfer of one token to the LP owner
TransferIxs(token, native, raw) ==
  IF raw = 0 THEN <<>>
  ELSE IF native
       THEN <<Ix("systemTransfer", token), Ix("syncNative", token)>>
  ELSE <<Ix("splTransfer", token)>>

\* the combined transaction up to the call of the DLMM SDK
DepositIxs(sc) ==
  <<Ix("createAta", "X"), Ix("createAta", "Y")>>
    \o TransferIxs("X", sc.nativeX, sc.x)
    \o TransferIxs("Y", sc.nativeY, sc.y)

deposit_start ==
  /\ script.name = "deposit" /\ script.pc = "start"
  /\ ScriptStep(IF DepositConfigured(script.env)
                THEN Call([script EXCEPT !.connection = TRUE], "DLMM.create", "pool")
                ELSE Exit(script, 1))

deposit_pool ==
  /\ script.name = "deposit" /\ script.pc = "pool"
  /\ \/ \E native \in NativeMints :
          \E activeId \in ActiveIds :
            ScriptStep(Call([script EXCEPT !.nativeX = native[1],
                                           !.nativeY = native[2],
                                           !.activeId = activeId],
                            "getMint", "mintX"))
     \/ ScriptStep(Exit(script, 1))

deposit_mintX ==
  /\ script.name = "deposit" /\ script.pc = "mintX"
  /\ \/ \E d \in 0..MaxDecimals :
          ScriptStep(Call([script EXCEPT !.decimalsX = d], "getMint", "mintY"))
     \/ ScriptStep(Exit(script, 1))

deposit_mintY ==
  /\ script.name = "deposit" /\ script.pc = "mintY"
  /\ \/ \E d \in 0..MaxDecimals :
          ScriptStep(Call([script EXCEPT
                            !.decimalsY = d,
                            !.x = ToRaw(DEPOSIT_TOKEN_X_AMOUNT, script.decimalsX),
                            !.y = ToRaw(DEPOSIT_TOKEN_Y_AMOUNT, d)],
                          "getPositionsByUserAndLbPair", "positions"))
     \/ ScriptStep(Exit(script, 1))

deposit_positions ==
  /\ script.name = "deposit" /\ script.pc = "positions"
  /\ \/ \E positions \in UserPositions :
          ScriptStep(Call([script EXCEPT
                            !.positions = positions,
                            !.existing = Len(positions) > 0,
                            !.ixs = DepositIxs(script),
                            !.liquidity = Liquidity(script, positions)],
                          IF Len(positions) > 0 THEN "addLiquidityByStrategy"
                          ELSE "initializePositionAndAddLiquidityByStrategy",
                          "liquidity"))
     \/ ScriptStep(Exit(script, 1))

deposit_liquidity ==
  /\ script.name = "deposit" /\ script.pc = "liquidity"
  /\ \/ \E n \in 1..2 :
          ScriptStep(Call([script EXCEPT !.ixs = @ \o [i \in 1..n |-> Ix("addLiquidity", "-")]],
                          "getLatestBlockhash",
                          IF script.existing THEN "blockhash"
                          ELSE "positionBlockhash"))
     \/ ScriptStep(Exit(script, 1))

\* the blockhash the new position's keypair signs over
deposit_positionBlockhash ==
  /\ script.name = "deposit" /\ script.pc = "positionBlockhash"
  /\ \/ ScriptStep(Call([script EXCEPT !.signers = <<"position">>],
                          "getLatestBlockhash", "blockhash"))
     \/ ScriptStep(Exit(script, 1))

deposit_blockhash ==
  /\ script.name = "deposit" /\ script.pc = "blockhash"
  /\ \/ ScriptStep(Submit([script EXCEPT
                             !.signed = TRUE,
                             !.signers = @ \o LastSigners(script)]))
     \/ ScriptStep(Exit(script, 1))

(***************************************************************************)
(* The DLMM withdrawal script (testDlmmWithdraw).                          *)
(***************************************************************************)
\* the percentage the script is written with
WITHDRAWAL_PERCENTAGE == [int |-> 12, nano |-> 500000000]

\* the percentages the script is run with: the one it is written with, all
\* of the position, and one below a basis point
WithdrawalPercentages ==
  {WITHDRAWAL_PERCENTAGE, [int |-> 100, nano |-> 0], [int |-> 0, nano |-> 5000000]}

\* the amounts of a token a position holds
PositionAmounts == {0, 1, 7, 8, 10000}

BpsDigits == 2  \* * 100

WithdrawBpsDenominator == 10000  \* .divn(10000)

\* a variant that takes the percentage for basis points, which C18 tells
\* apart
WithdrawalBps_asPercent(percent) == ToRaw(percent, 0) * WithdrawBpsDenominator

\* Math.floor(WITHDRAWAL_PERCENTAGE * 100)
WithdrawalBps(percent) == ToRaw(percent, BpsDigits)

\* total.muln(withdrawalBps).divn(10000)
EstimatedWithdraw(total, bps) == (total * bps) \div WithdrawBpsDenominator

\* none of the four throws of the validation is taken
WithdrawConfigured(env) ==
  /\ "RPC_URL" \in env
  /\ "DLMM_POOL_ADDRESS" \in env
  /\ ("LP_OWNER_PRIVATE_KEY" \in env \/ "PROTOCOL_PRIVATE_KEY" \in env)
  /\ "MANAGER_WALLET" \in env

\* the LP owner's transfer of one token to the manager
WithdrawTransferIxs(token, native, raw) ==
  IF raw = 0 THEN <<>>
  ELSE IF native THEN <<Ix("systemTransfer", token)>>
  ELSE <<Ix("splTransfer", token)>>

\* the combined transaction: the n instructions of removeLiquidity, the
\* manager's token accounts, the transfers
WithdrawIxs(sc, n) ==
  [i \in 1..n |-> Ix("removeLiquidity", "-")]
    \o <<Ix("createAta", "X")>>
    \o (IF sc.nativeY THEN <<>> ELSE <<Ix("createAta", "Y")>>)
    \o WithdrawTransferIxs("X", sc.nativeX, sc.x)
    \o WithdrawTransferIxs("Y", sc.nativeY, sc.y)

withdraw_start ==
  /\ script.name = "withdraw" /\ script.pc = "start"
  /\ ScriptStep(IF WithdrawConfigured(script.env)
                THEN Call([script EXCEPT !.connection = TRUE], "DLMM.create", "pool")
                ELSE Exit(script, 1))

withdraw_pool ==
  /\ script.name = "withdraw" /\ script.pc = "pool"
  /\ \/ \E native \in NativeMints :
          ScriptStep(Call([script EXCEPT !.nativeX = native[1],
                                         !.nativeY = native[2]],
                          "getPositionsByUserAndLbPair", "positions"))
     \/ ScriptStep(Exit(script, 1))

\* the positions arrived: none, or the first one with its two amounts
withdraw_positions ==
  /\ script.name = "withdraw" /\ script.pc = "positions"
  /\ \/ ScriptStep(Exit(script, 0))
     \/ \E tx \in PositionAmounts, ty \in PositionAmounts :
          LET bps == WithdrawalBps(script.percent)
              sc  == [script EXCEPT !.existing = TRUE,
                                    !.totalX = tx, !.totalY = ty]
          IN  ScriptStep(IF tx = 0 /\ ty = 0 THEN Exit(sc, 0)
                         ELSE Call([sc EXCEPT
                                      !.bps = bps,
                                      !.x = EstimatedWithdraw(tx, bps),
                                      !.y = EstimatedWithdraw(ty, bps)],
                                   "getMint", "mintX"))
     \/ ScriptStep(Exit(script, 1))

withdraw_mintX ==
  /\ script.name = "withdraw" /\ script.pc = "mintX"
  /\ \/ \E d \in 0..MaxDecimals :
          ScriptStep(Call([script EXCEPT !.decimalsX = d], "getMint", "mintY"))
     \/ ScriptStep(Exit(script, 1))

withdraw_mintY ==
  /\ script.name = "withdraw" /\ script.pc = "mintY"
  /\ \/ \E d \in 0..MaxDecimals :
          ScriptStep(Call([script EXCEPT !.decimalsY = d],
                          "removeLiquidity", "liquidity"))
     \/ ScriptStep(Exit(script, 1))

withdraw_liquidity ==
  /\ script.name = "withdraw" /\ script.pc = "liquidity"
  /\ \/ \E n \in 1..2 :
          ScriptStep(Call([script EXCEPT !.ixs = WithdrawIxs(script, n)],
                          "getLatestBlockhash", "blockhash"))
     \/ ScriptStep(Exit(script, 1))

withdraw_blockhash ==
  /\ script.name = "withdraw" /\ script.pc = "blockhash"
  /\ \/ ScriptStep(Submit([script EXCEPT !.signed = TRUE]))
     \/ ScriptStep(Exit(script, 1))

(***************************************************************************)
(* The end of the two DLMM scripts.                                        *)
(***************************************************************************)
\* simulateTransaction returned or threw: an error in the simulation is
\* process.exit(1), a throw is the catch's process.exit(1)
simulateTransaction ==
  /\ script.name \in {"deposit", "withdraw"} /\ script.pc = "simulate"
  /\ \E res \in {"ok", "err", "throws"} :
       ScriptStep(Exit([script EXCEPT !.simulated = res],
                       IF res = "ok" THEN 0 ELSE 1))

\* sendRawTransaction returned a signature, or threw
sendRawTransaction ==
  /\ script.name \in {"deposit", "withdraw"} /\ script.pc = "send"
  /\ \/ ScriptStep(Call(script, "confirmTransaction", "confirm"))
     \/ ScriptStep(Exit(script, 1))

\* confirmTransaction returned, or threw
confirmTransaction ==
  /\ script.name \in {"deposit", "withdraw"} /\ script.pc = "confirm"
  /\ \E ok \in BOOLEAN : ScriptStep(Exit(script, IF ok THEN 0 ELSE 1))

(***************************************************************************)
(* A run of one of the three scripts.                                      *)
(***************************************************************************)
Scripts ==
  {ScriptStart("feeClaim", sim, env) :
     sim \in BOOLEAN,
     env \in SUBSET {"PAYER_PRIVATE_KEY", "RPC_URL", "API_URL"}}
  \cup UNION {{[ScriptStart("deposit", sim, env) EXCEPT !.payerKey = k] :
                  k \in IF "PAYER_PRIVATE_KEY" \in env
                        THEN {"lpOwner", "manager", "other"} ELSE {"none"}} :
                sim \in BOOLEAN, env \in SUBSET DepositEnv}
  \cup {[ScriptStart("withdraw", sim, env) EXCEPT !.percent = p] :
          sim \in BOOLEAN,
          env \in SUBSET {"RPC_URL", "DLMM_POOL_ADDRESS", "LP_OWNER_PRIVATE_KEY",
                          "PROTOCOL_PRIVATE_KEY", "MANAGER_WALLET"},
          p \in WithdrawalPercentages}

InitScripts ==
  /\ wallet = NoWallet
  /\ provider = FALSE
  /\ ui = InitUi
  /\ runs = [r \in Slots |-> NoRun]
  /\ timers = {}
  /\ h = NoHandler
  /\ ntx = 0 /\ nedit = 0 /\ nerr = 0
  /\ toast = "none"
  /\ script \in Scripts
  /\ req = NoReq
  /\ resp = NoResp

NextScripts ==
  \/ feeClaim_start \/ feeClaim_claim \/ feeClaim_balance \/ feeClaim_simulate
  \/ deposit_start \/ deposit_pool \/ deposit_mintX \/ deposit_mintY
  \/ deposit_positions \/ deposit_liquidity \/ deposit_positionBlockhash
  \/ deposit_blockhash
  \/ withdraw_start \/ withdraw_pool \/ withdraw_positions \/ withdraw_mintX
  \/ withdraw_mintY \/ withdraw_liquidity \/ withdraw_blockhash
  \/ simulateTransaction \/ sendRawTransaction \/ confirmTransaction

SpecScripts == InitScripts /\ [][NextScripts]_vars

(***************************************************************************)
(* The market-data route: POST.  An optional JSON value is the empty set   *)
(* or the set of its one value; the JSON null is the empty set too.        *)
(***************************************************************************)
\* the requests the server handles, one after the other
MaxRequests == 2

\* what request.json() gives: it throws, or the value: null, an object
\* without tokenAddress, with an empty one, with one
RequestBodies ==
  {[parsed |-> FALSE, null |-> FALSE, tokenAddress |-> {}],
   [parsed |-> TRUE, null |-> TRUE, tokenAddress |-> {}],
   [parsed |-> TRUE, null |-> FALSE, tokenAddress |-> {}],
   [parsed |-> TRUE, null |-> FALSE, tokenAddress |-> {""}],
   [parsed |-> TRUE, null |-> FALSE, tokenAddress |-> {"mintA"}],
   [parsed |-> TRUE, null |-> FALSE, tokenAddress |-> {"mintB"}]}

\* the statuses the upstream answers with
UpstreamStatuses == {200, 400, 401, 404, 429, 500, 503}

NoData ==
  [price |-> {}, liquidity |-> {}, totalSupply |-> {},
   circulatingSupply |-> {}, fdv |-> {}, marketCap |-> {}, market_cap |-> {},
   priceChange24h |-> {}, price_change_24h |-> {}]

\* the market data the upstream answers with
UpstreamData ==
  {NoData,
   [NoData EXCEPT !.price = {5}, !.liquidity = {40}, !.totalSupply = {1000},
                  !.circulatingSupply = {900}, !.fdv = {5000},
                  !.marketCap = {4500}, !.priceChange24h = {2}],
   [NoData EXCEPT !.price = {0}, !.market_cap = {4400},
                  !.price_change_24h = {3}],
   [NoData EXCEPT !.price = {5}, !.marketCap = {0}, !.market_cap = {4400},
                  !.priceChange24h = {0}, !.price_change_24h = {3}]}

\* what response.json() gives: null, the data itself, or the data under
\* the field data
UpstreamJson ==
  {[null |-> TRUE, data |-> {}, own |-> NoData]}
  \cup {[null |-> FALSE, data |-> {}, own |-> d] : d \in UpstreamData}
  \cup {[null |-> FALSE, data |-> {d}, own |-> NoData] : d \in UpstreamData}

\* a variant without the default, which C21 tells apart
OrElse_first(a, b) == a

\* a || b of two optional numbers
OrElse(a, b) == IF a = {} \/ a = {0} THEN b ELSE a

\* the normalised market data
Normalised(data) ==
  [price |-> OrElse(data.price, {0}),
   liquidity |-> OrElse(data.liquidity, {0}),
   total_supply |-> OrElse(data.totalSupply, {0}),
   circulating_supply |-> OrElse(data.circulatingSupply, {0}),
   fdv |-> OrElse(data.fdv, {0}),
   market_cap |-> OrElse(data.marketCap, OrElse(data.market_cap, {0})),
   price_change_24h |-> OrElse(data.priceChange24h, data.price_change_24h)]

\* { success: false, data: null, error }
ErrorBody(error) == [success |-> FALSE, data |-> {}, error |-> error]

\* NextResponse.json(body, { status }), by the return at path
Respond(r, path, status, body) ==
  [r EXCEPT !.pc = "done", !.path = path, !.status = status, !.res = body]

\* the catch
Thrown(r) == Respond(r, "catch", 500, ErrorBody("Failed to fetch market data"))

\* a variant that takes every upstream response for an OK one, which C20
\* tells apart
ResponseOk_always(status) == TRUE

\* response.ok
ResponseOk(status) == status >= 200 /\ status < 300

RouteStep(r) ==
  /\ req' = r
  /\ UNCHANGED <<wallet, provider, ui, runs, timers, h, ntx, nedit, nerr,
                 toast, script, resp>>

\* a request arrives, the first or after the response to the one before:
\* the handler awaits request.json()
POST ==
  /\ req.pc \in {"none", "done"}
  /\ req.served < MaxRequests
  /\ \E body \in RequestBodies, mock \in BOOLEAN :
       RouteStep([pc |-> "body", served |-> req.served + 1,
                  body |-> body, useMock |-> mock,
                  mockCalled |-> FALSE, upstreamCalled |-> FALSE,
                  upstreamStatus |-> 0, upstream |-> {}, path |-> "none",
                  status |-> 0, res |-> ErrorBody("")])

\* request.json() settled: the check of tokenAddress, then the mock or the
\* upstream
POST_body ==
  /\ req.pc = "body"
  /\ RouteStep(
       IF ~req.body.parsed \/ req.body.null THEN Thrown(req)
       ELSE IF req.body.tokenAddress \subseteq {""}
       THEN Respond(req, "required", 400, ErrorBody("Token address is required"))
       ELSE IF req.useMock
       THEN [req EXCEPT !.pc = "mock", !.mockCalled = TRUE]
       ELSE [req EXCEPT !.pc = "fetch", !.upstreamCalled = TRUE])

\* mockBirdeye.getTokenMarketData returned its data, or threw
POST_mock ==
  /\ req.pc = "mock"
  /\ \/ RouteStep(Respond(req, "mock", 200, [mockData |-> req.body.tokenAddress]))
     \/ RouteStep(Thrown(req))

\* fetch returned a response, or threw
POST_fetch ==
  /\ req.pc = "fetch"
  /\ \/ \E status \in UpstreamStatuses :
          LET r == [req EXCEPT !.upstreamStatus = status]
          IN  RouteStep(IF ResponseOk(status) THEN [r EXCEPT !.pc = "json"]
                        ELSE Respond(r, "notOk", status,
                                     ErrorBody("Failed to fetch market data")))
     \/ RouteStep(Thrown(req))

\* response.json() returned a value, or threw
POST_json ==
  /\ req.pc = "json"
  /\ \/ \E json \in UpstreamJson :
          LET r == [req EXCEPT !.upstream = {json}]
          IN  RouteStep(
                IF json.null THEN Thrown(r)
                ELSE Respond(r, "ok", 200,
                       [success |-> TRUE,
                        data |-> {Normalised(IF json.data # {}
                                             THEN CHOOSE d \in json.data : TRUE
                                             ELSE json.own)},
                        error |-> ""]))
     \/ RouteStep(Thrown(req))

NextRoute == POST \/ POST_body \/ POST_mock \/ POST_fetch \/ POST_json

SpecRoute == Init /\ [][NextRoute]_vars

(***************************************************************************)
(* The type guards of the API responses.  A response is a JavaScript value:*)
(* its kind, what its error member is when it is an object, and which      *)
(* success payload it otherwise carries.  A guard's result is the          *)
(* JavaScript value it returns.                                            *)
(***************************************************************************)
Responses ==
  {[kind |-> k, error |-> "absent", payload |-> "none"] :
     k \in {"null", "undefined", "zero", "emptyString", "false", "string"}}
  \cup {[kind |-> "object", error |-> e, payload |-> p] :
          e \in {"absent", "string", "emptyString", "number", "null", "object"},
          p \in {"none", "claimInfo", "mint", "confirm"}}

\* a variant that asks for an error member that is truthy, which C22 tells
\* apart
isApiError_truthyError(response) ==
  IF response.kind \in {"null", "undefined", "zero", "emptyString", "false"}
  THEN response.kind
  ELSE IF response.error \in {"string", "number", "object"} THEN "true"
  ELSE "false"

\* response && typeof response.error === 'string': the falsy response
\* itself, or the boolean
isApiError(response) ==
  IF response.kind \in {"null", "undefined", "zero", "emptyString", "false"}
  THEN response.kind
  ELSE IF response.error \in {"string", "emptyString"} THEN "true"
  ELSE "false"

\* !v of the JavaScript value v
Not(v) ==
  IF v \in {"false", "null", "undefined", "zero", "emptyString"} THEN "true"
  ELSE "false"

isClaimInfoResponse(response) == Not(isApiError(response))

isMintClaimResponse(response) == Not(isApiError(response))

isConfirmClaimResponse(response) == Not(isApiError(response))

Guards == {"isApiError", "isClaimInfoResponse", "isMintClaimResponse",
           "isConfirmClaimResponse"}

InitGuards ==
  /\ wallet = NoWallet
  /\ provider = FALSE
  /\ ui = InitUi
  /\ runs = [r \in Slots |-> NoRun]
  /\ timers = {}
  /\ h = NoHandler
  /\ ntx = 0 /\ nedit = 0 /\ nerr = 0
  /\ toast = "none"
  /\ script = NoScript
  /\ req = NoReq
  /\ \E r \in Responses :
       resp = [r |-> r, said |-> [g \in Guards |-> "notCalled"]]

\* the guard g is called with the response
Classify(g) ==
  /\ resp.said[g] = "notCalled"
  /\ resp' = [resp EXCEPT !.said[g] =
                CASE g = "isApiError" -> isApiError(resp.r)
                  [] g = "isClaimInfoResponse" -> isClaimInfoResponse(resp.r)
                  [] g = "isMintClaimResponse" -> isMintClaimResponse(resp.r)
                  [] OTHER -> isConfirmClaimResponse(resp.r)]
  /\ UNCHANGED <<wallet, provider, ui, runs, timers, h, ntx, nedit, nerr,
                 toast, script, req>>

SpecGuards == InitGuards /\ [][\E g \in Guards : Classify(g)]_vars

(***************************************************************************)
(* Properties of the retry chain of fetchVaultData (SpecRefresh).          *)
(***************************************************************************)
\* the retry timers of the chain in slot r that are pending
ChainTimers(r) == {t \in timers : t.kind = "retry" /\ t.run = r}

\* this step is the one in which the chain in slot r gives up and sets both
\* fields to 0
Settles(r) == runs[r].end # "settled" /\ runs'[r].end = "settled"

\* C1 (as the code has it): a chain whose user read keeps failing settles on
\* userShareBalance = 0 and userShareValue = 0 after exactly 4 failed
\* attempts, the first one and maxRetries = 3 retries, the retries having been
\* delayed by 1 s, 2 s and 4 s.
C1_SettlesAfterFourAttempts ==
  [][\A r \in Slots :
       Settles(r) =>
         /\ runs'[r].attempts = maxRetries + 1
         /\ runs'[r].delays = <<1000, 2000, 4000>>
         /\ ui'.userShareBalance = 0 /\ ui'.userShareValue = 0
         /\ ChainTimers(r)' = {}]_vars

\* C1 as stated: the chain settles after exactly 3 failed attempts.
C1_SettlesAfterThreeAttempts ==
  [][\A r \in Slots :
       Settles(r) =>
         /\ runs'[r].attempts = 3
         /\ runs'[r].delays = <<1000, 2000, 4000>>
         /\ ui'.userShareBalance = 0 /\ ui'.userShareValue = 0]_vars

\* a chain has settled on zero because the share account was absent
C1_SettledOnAbsence ==
  \E r \in Slots :
    /\ runs[r].end = "settled" /\ runs[r].lastFail = "absent"
    /\ runs[r].attempts = 4
    /\ ui.userShareBalance = 0 /\ ui.userShareValue = 0

\* C2 as stated: once an attempt of fetchVaultData has ended it has set
\* userShareBalance and userShareValue both, or neither.
C2_BothOrNeither ==
  \A r \in Slots :
    runs[r].pc = "done" => (runs[r].wroteBal <=> runs[r].wroteVal)

\* C4 as stated: an attempt whose user read failed for another reason than
\* the absence of the share account (the user's previewRedeem threw) is not
\* retried and does not force the two fields to zero.
C4_OtherFailureAbandoned ==
  \A r \in Slots :
    runs[r].lastFail = "other" => runs[r].end \notin {"retry", "settled"}

\* the retry budget of the chain in slot r is kept
ChainBounded(r) ==
    /\ runs[r].rc <= maxRetries
    /\ Len(runs[r].delays) <= maxRetries
    /\ runs[r].attempts <= maxRetries + 1
    /\ Len(runs[r].delays) = runs[r].rc + (IF runs[r].end = "retry" THEN 1 ELSE 0)
    /\ \A t \in ChainTimers(r) : t.rc = runs[r].rc + 1 /\ t.rc <= maxRetries
    /\ Cardinality(ChainTimers(r)) = IF runs[r].end = "retry" THEN 1 ELSE 0

\* C9: in every chain retryCount stays within maxRetries = 3, at most 3 retry
\* timers are scheduled, at most one of them is pending at a time and only
\* between two attempts, and none is pending once the last attempt has ended;
\* and every chain that has started comes to its end.
C9_ChainTerminates ==
  /\ [](\A r \in Slots : ChainBounded(r))
  /\ \A r \in Slots : ~Ended(runs[r]) ~> Ended(runs[r])

\* the last attempt of a chain that used all its retries has ended
C9_LastAttemptEnded ==
  \E r \in Slots :
    /\ runs[r].rc = maxRetries /\ runs[r].pc = "done"
    /\ Len(runs[r].delays) = maxRetries
    /\ ChainTimers(r) = {}

(***************************************************************************)
(* Properties of the component (Spec).                                     *)
(***************************************************************************)
\* this step starts an invocation of handleRedeem that passes its checks
RedeemStarts == h.kind = "none" /\ h'.kind = "redeem"

\* this step takes a running handleRedeem past one of its awaits
RedeemProceeds == h.kind = "redeem" /\ h'.kind = "redeem" /\ h'.pc # h.pc

\* C3 (as the code has it): while a wallet is connected and the component's
\* withdrawalsEnabled is false, the action button of the redeem form is
\* disabled whatever the share balance, and no step calls handleRedeem.
C3_NoRedeemStarts ==
  [][(wallet # NoWallet /\ ~ui.withdrawalsEnabled) =>
       /\ ~RedeemStarts
       /\ ui.modalMode = "redeem" => (ActionDisabled(ui) /\ ntx' = ntx)]_vars

\* C3 as stated: in such a state, moreover, no redeem transaction is built
\* or submitted.
C3_NoRedeemBuiltOrSubmitted ==
  [][(wallet # NoWallet /\ ~ui.withdrawalsEnabled) =>
       ~RedeemStarts /\ ~RedeemProceeds]_vars

\* withdrawals are disabled while the redeem form holds a balance and a
\* percentage that would otherwise enable the button
C3_DisabledWithBalance ==
  /\ wallet # NoWallet /\ ~ui.withdrawalsEnabled /\ ~ui.loading
  /\ ui.modalMode = "redeem" /\ ui.userShareBalance > 0
  /\ ui.redeemPercent = <<"5", "0">>

\* this step ends a handler
HandlerEnds == h.kind # "none" /\ h'.kind = "none"

\* C7: a handler that fails at any of its awaits ends there: it has submitted
\* at most one transaction, the error is shown, loading is false, both inputs
\* and the refresh indicator are as they were, no timer is scheduled and no
\* refresh is started.
C7_FailureEndsHandler ==
  [][/\ h'.submits <= 1
     /\ (HandlerEnds /\ toast' # "success") =>
          /\ toast' = "failed"
          /\ ~ui'.loading
          /\ ui'.amount = ui.amount /\ ui'.redeemPercent = ui.redeemPercent
          /\ ui'.postTransactionRefreshing = ui.postTransactionRefreshing
          /\ timers' = timers /\ runs' = runs /\ ntx' = ntx]_vars

\* a handler has failed and left its input and no timer
C7_FailedWithInput ==
  /\ toast = "failed" /\ h.kind = "none" /\ ~ui.loading
  /\ timers = {} /\ ~ui.postTransactionRefreshing
  /\ ui.amount # <<>> \/ ui.redeemPercent # <<>>

\* this step starts a refresh (a chain at retryCount 0) in slot r
Starts(r) == Ended(runs[r]) /\ runs'[r] # runs[r]

\* C8: a chain starts at retryCount 0 only when a wallet is connected or
\* changed, or when a post-transaction timer of 8 s fires, and this one
\* starts fetchZcBalance and fetchVaultData together; a handler that ends
\* confirmed schedules exactly one such timer, and any other step none.
C8_ChainStarts ==
  [][/\ \A r \in Slots :
          Starts(r) =>
            /\ runs'[r].rc = 0 /\ runs'[r].attempts = 1
            /\ \/ wallet' # wallet /\ wallet' # NoWallet /\ timers' = timers
               \/ \E t \in timers :
                    /\ t.kind = "postTx" /\ t.delay = 8000
                    /\ timers' = timers \ {t}
                    /\ wallet' = wallet
                    /\ runs'[r].zc = "account" /\ runs'[r].pc = "vaultState"
     /\ LET added == {t \in timers' \ timers : t.kind = "postTx"}
        IN  IF HandlerEnds /\ toast' = "success"
            THEN /\ h.pc = "confirm"
                 /\ Cardinality(added) = 1
                 /\ \A t \in added : t.delay = 8000
            ELSE added = {}]_vars

\* the refresh of a post-transaction timer has started both readers
C8_PostTxRefreshStarted ==
  \E r \in Slots :
    /\ runs[r].origin = "postTx"
    /\ runs[r].zc = "account" /\ runs[r].pc = "vaultState"
    /\ toast = "success" /\ timers = {}

ZcFields == {"zcBalance", "zcTotalSupply"}
VaultFields ==
  {"refreshing", "withdrawalsEnabled", "vaultBalance", "exchangeRate",
   "userShareBalance", "userShareValue"}

\* this step is a continuation of the fetchZcBalance call in slot r
ZcStep(r) ==
  /\ runs[r].zc # "done" /\ runs'[r].zc # runs[r].zc
  /\ runs'[r] = [runs[r] EXCEPT !.zc = runs'[r].zc]

\* this step is a continuation, or a retry, of the fetchVaultData call in slot r
VaultStep(r) ==
  /\ ~Ended(runs[r]) /\ runs'[r] # runs[r]
  /\ runs'[r].zc = runs[r].zc

\* the step leaves every field of the component's state outside fields as it
\* is; postTransactionRefreshing is the timer callback's to clear when the
\* two calls it awaits have returned
Frame(r, fields) ==
  /\ \A f \in (DOMAIN ui) \ fields :
       \/ ui'[f] = ui[f]
       \/ f = "postTransactionRefreshing" /\ runs[r].origin = "postTx"
  /\ UNCHANGED <<resp, script, req, wallet, provider, h, toast>>

\* C10: a step of fetchZcBalance writes zcBalance and zcTotalSupply only, and
\* a step of fetchVaultData writes refreshing, withdrawalsEnabled,
\* vaultBalance, exchangeRate, userShareBalance and userShareValue only, so
\* that in whatever order the steps of the two calls are taken, each field
\* ends with the value its own call gave it.
C10_DisjointWrites ==
  [][\A r \in Slots :
       /\ ZcStep(r) => Frame(r, ZcFields) /\ timers' = timers
       /\ VaultStep(r) => Frame(r, VaultFields)]_vars

\* both calls of a refresh are under way and each has written a field
C10_BothUnderWay ==
  \E r \in Slots :
    /\ runs[r].zc = "mint" /\ runs[r].pc = "rate"
    /\ ui.zcBalance \in ZcAmounts /\ ui.vaultBalance \in TotalAssetsValues

(***************************************************************************)
(* Properties of handleRedeem on any input (SpecInvoke).                   *)
(***************************************************************************)
\* the text is a number p with 0 < p <= 100
ValidPercent(text) ==
  LET p == parseFloat(text)
  IN  ~p.nan /\ p.v > 0 /\ p.v <= 100 * Scale

\* C5: handleRedeem goes on to build a transaction only for a percentage p
\* with 0 < p <= 100; for any other text it shows an error and returns,
\* leaving loading, redeemPercent, the balances and every other field as they
\* were, with no read started and no timer scheduled.
C5_InvalidPercentRejected ==
  [][/\ RedeemStarts => ValidPercent(ui.redeemPercent)
     /\ handleRedeem =>
          IF ValidPercent(ui.redeemPercent)
          THEN \/ toast' = "nowallet" /\ ui' = ui /\ h' = h
               \/ RedeemStarts /\ ui'.loading /\ toast' = toast
          ELSE /\ toast' = "invalid"
               /\ ui' = ui /\ h' = h /\ runs' = runs /\ timers' = timers]_vars

\* handleRedeem has rejected 150
C5_RejectedAboveHundred ==
  /\ toast = "invalid" /\ ntx = 1 /\ h.kind = "none" /\ ~ui.loading
  /\ ui.redeemPercent = <<"1", "5", "0">> /\ ui.amount = <<"5">>

Fires(t) ==
  /\ t \notin timers'
  /\ IF t.kind = "retry"
     THEN /\ runs'[t.run] = NextAttempt(runs[t.run], t.rc)
          /\ runs'[t.run].rc = runs[t.run].rc + 1
          /\ runs'[t.run].w = t.w
     ELSE \E r \in Slots : Starts(r) /\ runs'[r] = NewRun(t.w, t.prog, "postTx")

\* C11: a timer that was set is never cancelled and never set again: it
\* leaves the pending timers only in the step that runs its callback, which
\* makes the next attempt with retryCount + 1 (the refresh, for the 8 s
\* timer) in the closure that set it even when the wallet has changed since;
\* and every timer that is pending fires.
C11_TimersFireOnce ==
  /\ [][/\ \A t \in timers \ timers' : Fires(t)
        /\ \A t \in timers' \ timers :
             IF t.kind = "retry"
             THEN t.rc = runs[t.run].rc + 1 /\ runs[t.run].pc # "done"
             ELSE t.rc = ntx /\ h.pc = "confirm"]_vars
  /\ \A r \in Slots : (ChainTimers(r) # {}) ~> (ChainTimers(r) = {})
  /\ (\E t \in timers : t.kind = "postTx") ~> (\A t \in timers : t.kind # "postTx")

\* the wallet is disconnected and the attempt of a retry timer that wallet's
\* closure had set is under way with retryCount 1
C11_RetryAfterDisconnect ==
  /\ wallet = NoWallet /\ timers = {}
  /\ \E r \in Slots :
       runs[r].w = "A" /\ runs[r].rc = 1 /\ runs[r].pc = "totalAssets"

(***************************************************************************)
(* Properties of the displayed rate and value (SpecValue).                 *)
(***************************************************************************)
\* userShareValue is B x R up to the rounding of the two integer divisions:
\* the rate is rounded down at 6 decimal places for each of the B shares
ValueIsBalanceTimesRate ==
  LET B == ui.userShareBalance \div Micro
      BR == B * ui.exchangeRate
  IN  BR <= ui.userShareValue /\ ui.userShareValue < BR + B

\* the attempt in slot r has ended with all its reads returned, for a
\* positive balance
RefreshSucceeded(r) ==
  /\ runs[r].end = "ok" /\ ui.userShareBalance > 0
  /\ runs[r].rateAt # NoVault /\ runs[r].valueAt # NoVault

Called(what) == \E i \in DOMAIN script.calls : script.calls[i] = what

Finished(name) == script.name = name /\ script.pc = "done"

\* C13: in the fee-claim script with SIMULATE_ONLY false, a successful claim
\* followed by signing is followed by the POST to /fee-claim/confirm before
\* the script ends; with SIMULATE_ONLY true /fee-claim/confirm is never
\* called.
C13_ConfirmAfterSigning ==
  script.name = "feeClaim" =>
    /\ (Finished("feeClaim") /\ ~script.simulateOnly /\ script.signed)
         => Called("POST /fee-claim/confirm")
    /\ script.simulateOnly => ~Called("POST /fee-claim/confirm")

\* C19: in the fee-claim script a claim that is refused or throws ends the
\* script with nothing signed and no call after /fee-claim/claim; the
\* transaction is signed only after a successful claim, and the balances,
\* the simulation and the confirmation are called only after signing.
C19_NothingAfterFailedClaim ==
  script.name = "feeClaim" =>
    /\ script.claimed \in {"failure", "throws"}
         => /\ script.pc = "done"
            /\ ~script.signed
            /\ script.calls = <<"POST /fee-claim/claim">>
    /\ script.signed => script.claimed = "success"
    /\ \A what \in {"getBalance", "simulateTransaction",
                     "POST /fee-claim/confirm"} :
         Called(what) => script.signed

\* /fee-claim/claim answered success = false and the script has ended
C19_ClaimRefused ==
  /\ Finished("feeClaim") /\ script.claimed = "failure"
  /\ "PAYER_PRIVATE_KEY" \in script.env

TimesCalled(what) ==
  Cardinality({i \in DOMAIN script.calls : script.calls[i] = what})

\* C14: in the DLMM deposit and withdrawal scripts, with SIMULATE_ONLY true
\* the transaction is simulated and never sent or confirmed, and an error of
\* the simulation ends the script with exit code 1; with SIMULATE_ONLY false
\* the signed transaction is sent, once, never simulated, confirmTransaction
\* is called right after the send and only then, and a script that signed
\* ends with exit code 0 only after it.
C14_SimulatedOrSentOnce ==
  script.name \in {"deposit", "withdraw"} =>
    /\ script.simulateOnly =>
         /\ ~Called("sendRawTransaction") /\ ~Called("confirmTransaction")
         /\ script.signed => Called("simulateTransaction")
         /\ script.simulated = "err" => script.pc = "done" /\ script.exit = 1
    /\ ~script.simulateOnly =>
         /\ ~Called("simulateTransaction")
         /\ script.signed => TimesCalled("sendRawTransaction") = 1
         /\ ~script.signed => ~Called("sendRawTransaction")
         /\ \A i \in DOMAIN script.calls :
              script.calls[i] = "confirmTransaction"
                => /\ script.calls[i - 1] = "sendRawTransaction"
                   /\ i = Len(script.calls)
         /\ script.pc = "confirm" => Called("confirmTransaction")
         /\ (script.pc = "done" /\ script.signed /\ script.exit = 0)
              => Called("confirmTransaction")

\* the withdrawal script, simulating, was told of an error in the simulation
C14_SimulationFailed ==
  /\ Finished("withdraw") /\ script.simulateOnly
  /\ script.simulated = "err" /\ script.ixs # <<>>

\* C15: the deposit script's combined transaction is the two token-account
\* creations of the LP owner, then the manager's transfer of each token of
\* a non-zero amount, X before Y, a native transfer being a system transfer
\* immediately followed by its sync-native instruction, and after all of
\* them the add-liquidity instructions.
C15_DepositOrder ==
  (script.name = "deposit" /\ script.ixs # <<>>) =>
    LET ixs == script.ixs
        n == Len(ixs)
        Transfers(t) ==
          {i \in 1..n : ixs[i].token = t
                          /\ ixs[i].op \in {"systemTransfer", "splTransfer"}}
        Native(t) == IF t = "X" THEN script.nativeX ELSE script.nativeY
        Raw(t) == IF t = "X" THEN script.x ELSE script.y
    IN  /\ n >= 2
        /\ ixs[1] = Ix("createAta", "X") /\ ixs[2] = Ix("createAta", "Y")
        /\ \A i \in 3..n : ixs[i].op # "createAta"
        /\ \A t \in {"X", "Y"} :
             /\ Cardinality(Transfers(t)) = IF Raw(t) = 0 THEN 0 ELSE 1
             /\ \A i \in Transfers(t) :
                  IF Native(t)
                  THEN /\ ixs[i].op = "systemTransfer"
                       /\ i < n /\ ixs[i + 1] = Ix("syncNative", t)
                  ELSE ixs[i].op = "splTransfer"
        /\ \A i \in 1..n : ixs[i].op = "syncNative"
             => i > 1 /\ ixs[i - 1] = Ix("systemTransfer", ixs[i].token)
        /\ \A i \in Transfers("X"), j \in Transfers("Y") : i < j
        /\ \A i, j \in 1..n :
             (ixs[i].op = "addLiquidity" /\ ixs[j].op # "addLiquidity")
               => j < i
        /\ script.pc \notin {"liquidity", "done"}
             => \E i \in 1..n : ixs[i].op = "addLiquidity"

\* a deposit into a pool whose token Y is native SOL: both transfers, the
\* sync-native instruction and two add-liquidity instructions are in the
\* transaction
C15_NativeDepositBuilt ==
  /\ script.name = "deposit" /\ script.pc = "blockhash"
  /\ script.nativeY /\ script.x > 0 /\ script.y > 0
  /\ Len(script.ixs) = 7

\* the amount an environment that sets DEPOSIT_TOKEN_X_AMOUNT or
\* DEPOSIT_TOKEN_Y_AMOUNT sets it to
EnvAmount == [int |-> 1, nano |-> 500000000]

\* C17 as stated: when DEPOSIT_TOKEN_X_AMOUNT or DEPOSIT_TOKEN_Y_AMOUNT is
\* set in the environment, the raw amount the deposit script transfers and
\* adds as liquidity is that value converted with the mint's decimals.
C17_EnvAmountsDeposited ==
  (script.name = "deposit" /\ script.ixs # <<>>) =>
    /\ "DEPOSIT_TOKEN_X_AMOUNT" \in script.env
         => script.x = ToRaw(EnvAmount, script.decimalsX)
    /\ "DEPOSIT_TOKEN_Y_AMOUNT" \in script.env
         => script.y = ToRaw(EnvAmount, script.decimalsY)

\* the script has done nothing but end with exit code 1: no connection, no
\* network call
ExitedBeforeWork ==
  /\ script.pc = "done" /\ script.exit = 1
  /\ ~script.connection /\ script.calls = <<>>

\* the fee-claim script's required variables
FeeClaimUnset ==
  \/ "PAYER_PRIVATE_KEY" \notin script.env
  \/ script.simulateOnly /\ "RPC_URL" \notin script.env

ManagerVariable ==
  IF script.name = "deposit" THEN "MANAGER_PRIVATE_KEY" ELSE "MANAGER_WALLET"

C18_WithdrawnShare ==
  script.name = "withdraw" =>
    LET p == script.percent
        bps == p.int * 100 + p.nano \div 10000000
        Share(total) == (total * bps) \div 10000
        Transfers(t) ==
          {i \in DOMAIN script.ixs :
             /\ script.ixs[i].token = t
             /\ script.ixs[i].op \in {"systemTransfer", "splTransfer"}}
    IN  /\ Called("getMint") =>
             /\ script.bps = bps
             /\ script.x = Share(script.totalX) /\ script.x <= script.totalX
             /\ script.y = Share(script.totalY) /\ script.y <= script.totalY
        /\ script.ixs # <<>> =>
             /\ Cardinality(Transfers("X")) = IF script.x = 0 THEN 0 ELSE 1
             /\ Cardinality(Transfers("Y")) = IF script.y = 0 THEN 0 ELSE 1
        /\ (~script.existing \/ (script.totalX = 0 /\ script.totalY = 0)) =>
             /\ script.ixs = <<>>
             /\ \A what \in {"removeLiquidity", "simulateTransaction",
                              "sendRawTransaction"} : ~Called(what)

\* 12.5% of a position of 7 of token X and 10000 of token Y: nothing of X,
\* 1250 of Y, one transfer
C18_EighthOfSevenIsNothing ==
  /\ script.name = "withdraw" /\ script.pc = "blockhash"
  /\ script.percent = WITHDRAWAL_PERCENTAGE
  /\ script.totalX = 7 /\ script.totalY = 10000
  /\ script.x = 0 /\ script.y = 1250

(***************************************************************************)
(* Properties of the market-data route (SpecRoute).                        *)
(***************************************************************************)
\* C20: a response of the market-data POST handler by one of its three
\* error returns has the body {success: false, data: null, error}: 400 for
\* a parsed body without a tokenAddress, and then neither the mock nor the
\* upstream was called; the upstream's status when the upstream's response
\* is not OK; 500 when anything threw, an unparsable or null body included;
\* and only the return of the normalised data says success: true.
C20_ErrorResponses ==
  req.pc = "done" =>
    LET missing == /\ req.body.parsed /\ ~req.body.null
                   /\ req.body.tokenAddress \subseteq {""}
        error == /\ req.res.success = FALSE /\ req.res.data = {}
                 /\ req.res.error # ""
    IN  /\ missing => /\ req.status = 400 /\ error
                       /\ ~req.mockCalled /\ ~req.upstreamCalled
        /\ (~req.body.parsed \/ req.body.null) => req.status = 500 /\ error
        /\ (req.upstreamStatus # 0 /\ req.upstreamStatus \notin 200..299)
             => req.status = req.upstreamStatus /\ error
        /\ req.path = "catch" => req.status = 500 /\ error
        /\ req.path \in {"required", "notOk", "catch"} <=> req.status >= 400
        /\ req.status >= 400 => error
        /\ req.path = "ok" <=> (req.status = 200 /\ ~req.mockCalled)

\* the upstream answered 404 and the handler passed the status on
C20_UpstreamNotFound ==
  /\ req.pc = "done" /\ req.upstreamCalled
  /\ req.upstreamStatus = 404 /\ req.status = 404

\* the data the handler normalises: responseData.data when the upstream
\* wraps it, responseData itself otherwise
Payload ==
  LET json == CHOOSE j \in req.upstream : TRUE
  IN  IF json.data # {} THEN CHOOSE d \in json.data : TRUE ELSE json.own

\* the normalised response to an OK upstream response has been returned
ReturnedData == req.pc = "done" /\ req.path = "ok"

\* the one number v, or 0 for a missing value
NumberOrZero(v) == IF v = {} THEN {0} ELSE v

\* the returned field is this number
SixFields ==
  LET out == CHOOSE d \in req.res.data : TRUE
      in == Payload
  IN  /\ out.price = NumberOrZero(in.price)
      /\ out.liquidity = NumberOrZero(in.liquidity)
      /\ out.total_supply = NumberOrZero(in.totalSupply)
      /\ out.circulating_supply = NumberOrZero(in.circulatingSupply)
      /\ out.fdv = NumberOrZero(in.fdv)
      /\ out.market_cap =
           IF in.marketCap \notin {{}, {0}} THEN in.marketCap
           ELSE NumberOrZero(in.market_cap)

\* C21 (as the code has it): the response to an OK upstream response is
\* {success: true, data}, wrapped payload or not, where price, liquidity,
\* total_supply, circulating_supply, fdv and market_cap are the upstream's
\* number, or 0 when it is missing, and price_change_24h is the upstream's
\* priceChange24h when that is a number other than 0, else its
\* price_change_24h, and is missing when that is missing too.
C21_NormalisedButChange ==
  ReturnedData =>
    /\ req.status = 200 /\ req.res.success /\ Cardinality(req.res.data) = 1
    /\ SixFields
    /\ LET out == CHOOSE d \in req.res.data : TRUE
       IN  out.price_change_24h =
             IF Payload.priceChange24h \notin {{}, {0}}
             THEN Payload.priceChange24h
             ELSE Payload.price_change_24h

\* C21 as stated: every field of the returned data, price_change_24h
\* included, is the upstream's number, or 0 when it is missing.
C21_EveryFieldANumber ==
  ReturnedData =>
    /\ req.status = 200 /\ req.res.success /\ Cardinality(req.res.data) = 1
    /\ SixFields
    /\ LET out == CHOOSE d \in req.res.data : TRUE
       IN  out.price_change_24h =
             IF Payload.priceChange24h # {} THEN Payload.priceChange24h
             ELSE NumberOrZero(Payload.price_change_24h)

\* a wrapped payload with a price and a market cap but no liquidity has
\* been normalised
C21_WrappedPayloadNormalised ==
  /\ ReturnedData
  /\ (CHOOSE j \in req.upstream : TRUE).data # {}
  /\ Payload.price = {0} /\ Payload.liquidity = {} /\ Payload.market_cap = {4400}
  /\ (CHOOSE d \in req.res.data : TRUE).liquidity = {0}

(***************************************************************************)
(* Properties of the type guards (SpecGuards).                             *)
(***************************************************************************)
\* the JavaScript value v is truthy
Holds(v) == v \notin {"notCalled", "false", "null", "undefined", "zero",
                      "emptyString"}

\* C22: isApiError(r) holds exactly when r is not null or undefined and
\* r.error is a string; of isApiError(r) and each of isClaimInfoResponse(r),
\* isMintClaimResponse(r), isConfirmClaimResponse(r) exactly one holds; and
\* a success payload is classified as a success exactly when its error
\* member is not a string.
C22_GuardsPartition ==
  LET r == resp.r
      stringError == r.kind = "object" /\ r.error \in {"string", "emptyString"}
  IN  /\ resp.said["isApiError"] # "notCalled"
           => (Holds(resp.said["isApiError"])
                 <=> (r.kind \notin {"null", "undefined"} /\ stringError))
      /\ \A g \in Guards \ {"isApiError"} :
           (resp.said["isApiError"] # "notCalled" /\ resp.said[g] # "notCalled")
             => /\ resp.said[g] \in {"true", "false"}
                /\ Holds(resp.said[g]) <=> ~Holds(resp.said["isApiError"])
      /\ \A g \in Guards \ {"isApiError"} :
           (resp.said[g] # "notCalled" /\ r.payload # "none")
             => (Holds(resp.said[g]) <=> ~stringError)

\* a mint response that also carries an empty string as error has been
\* taken for an error by both guards
C22_EmptyErrorIsAnError ==
  /\ resp.r = [kind |-> "object", error |-> "emptyString", payload |-> "mint"]
  /\ resp.said["isApiError"] = "true"
  /\ resp.said["isMintClaimResponse"] = "false"

\* C23: the deposit script adds to the first position the LP owner holds,
\* over that position's own bins, and creates none; without a position it
\* creates one over [activeId - 34, activeId + 34], which the new
\* position's keypair signs first.  In both cases the LP owner and the
\* manager sign, and the fee payer signs as well exactly when its key is
\* neither's.
C23_PositionAndSigners ==
  (script.name = "deposit" /\ script.ixs # <<>>) =>
    LET held == script.positions
        own == script.payerKey = "other" /\ "PAYER_PRIVATE_KEY" \in script.env
        Signed(who) == \E i \in DOMAIN script.signers : script.signers[i] = who
    IN  /\ held # <<>> =>
             /\ Called("addLiquidityByStrategy")
             /\ ~Called("initializePositionAndAddLiquidityByStrategy")
             /\ script.liquidity =
                  [position |-> held[1].id, minBinId |-> held[1].lowerBinId,
                   maxBinId |-> held[1].upperBinId]
             /\ ~Signed("position")
        /\ held = <<>> =>
             /\ Called("initializePositionAndAddLiquidityByStrategy")
             /\ ~Called("addLiquidityByStrategy")
             /\ script.liquidity =
                  [position |-> "new", minBinId |-> script.activeId - 34,
                   maxBinId |-> script.activeId + 34]
             /\ script.signed => script.signers[1] = "position"
        /\ script.signed =>
             /\ Signed("lpOwner") /\ Signed("manager")
             /\ Signed("feePayer") <=> own
        /\ ~script.signed => \A i \in DOMAIN script.signers :
                                script.signers[i] = "position"

\* a new position around bin 100, signed by its keypair, the LP owner, the
\* manager and a fee payer of its own
C23_NewPositionFourSigners ==
  /\ script.name = "deposit" /\ script.signed
  /\ script.liquidity = [position |-> "new", minBinId |-> 66, maxBinId |-> 134]
  /\ script.signers = <<"position", "lpOwner", "manager", "feePayer">>

(***************************************************************************)
(* Properties of the reads of one attempt (SpecRefresh).                   *)
(***************************************************************************)
\* the attempt in slot r leaves the await at pc in this step
Leaves(r, pc) == runs[r].pc = pc /\ runs'[r].pc # pc

\* the step writes no field of the component's state but field
Writes(field) == \A f \in (DOMAIN ui) \ {field} : ui'[f] = ui[f]

\* C24: in an attempt of fetchVaultData the vault state read is followed by
\* the total assets read, this one by the read of the value of one share,
\* and this one by the read of the user's share account, whether the read
\* failed or not; a failed read of the vault state leaves withdrawalsEnabled
\* false, of the total assets vaultBalance 0, of the value of one share
\* exchangeRate 1, and each of the three writes that one field only; an
\* attempt without a program or a wallet reads nothing and changes no field
\* of the vault's other than refreshing.
C24_IndependentReads ==
  [][\A r \in Slots :
       /\ Leaves(r, "vaultState") =>
            /\ runs'[r].pc = "totalAssets" /\ Writes("withdrawalsEnabled")
            /\ nerr' > nerr => ~ui'.withdrawalsEnabled
       /\ Leaves(r, "totalAssets") =>
            /\ runs'[r].pc = "rate" /\ Writes("vaultBalance")
            /\ nerr' > nerr => ui'.vaultBalance = 0
       /\ Leaves(r, "rate") =>
            /\ runs'[r].pc = "account" /\ Writes("exchangeRate")
            /\ nerr' > nerr => ui'.exchangeRate = 1000000
       /\ (Starts(r) /\ (~runs'[r].prog \/ runs'[r].w = NoWallet)) =>
            /\ runs'[r].pc = "done" /\ runs'[r].end = "guard"
            /\ \A f \in VaultFields \ {"refreshing"} : ui'[f] = ui[f]
    ]_vars

\* the read of the value of one share failed, the reads before it had not,
\* and the attempt has gone on to read the user's shares and to value them
C24_RateFailedReadsWentOn ==
  /\ nerr = 1 /\ ui.exchangeRate = Micro
  /\ ui.withdrawalsEnabled /\ ui.vaultBalance = 9
  /\ ui.zcBalance = 5 /\ ui.zcTotalSupply = 12
  /\ runs[1].pc = "preview" /\ runs[1].rc = 0 /\ ui.userShareBalance = 3

(***************************************************************************)
(* Overlapping refresh chains: the wallet effect starts a refresh while    *)
(* the fetchVaultData chain of an earlier render still has a retry timer   *)
(* pending.  Nothing clears a timer (no effect has a cleanup), and the     *)
(* callback of a retry timer is the fetchVaultData of the closure that     *)
(* scheduled it, with that render's wallet.                                *)
(***************************************************************************)
InitOverlap ==
  /\ wallet = NoWallet
  /\ provider = FALSE
  /\ ui = InitUi
  /\ runs = [r \in 1..MaxOverlap |-> NoRun]
  /\ timers = {}
  /\ h = NoHandler
  /\ ntx = 0
  /\ nedit = 0
  /\ nerr = 0
  /\ toast = "none"
  /\ script = NoScript
  /\ req = NoReq
  /\ resp = NoResp

\* the user connects wallet A and then switches to wallet B, with a provider
NextOverlap ==
  \/ \E w \in Connectable \ {NoWallet} : wallet # "B" /\ WalletChange(w, TRUE)
  \/ \E r \in DOMAIN runs : fetchZcBalance_account(r)
  \/ \E r \in DOMAIN runs : fetchZcBalance_mint(r)
  \/ \E r \in DOMAIN runs : fetchVaultData_vaultState(r)
  \/ \E r \in DOMAIN runs : fetchVaultData_totalAssets(r)
  \/ \E r \in DOMAIN runs : fetchVaultData_rate(r)
  \/ \E r \in DOMAIN runs : fetchVaultData_account(r, FALSE)
  \/ \E r \in DOMAIN runs : fetchVaultData_preview(r, FALSE)
  \/ \E t \in timers : RetryTimerFires(t)

SpecOverlap == InitOverlap /\ [][NextOverlap]_vars

\* every refresh started for the connected wallet has ended: its reads have
\* returned and it has no retry pending
Settled(w) ==
  /\ \E q \in DOMAIN runs : runs[q].w = w /\ runs[q].end \in {"ok", "settled"}
  /\ \A q \in DOMAIN runs : runs[q].w = w => Ended(runs[q])

\* C25: a late attempt of an older chain never overwrites the displayed
\* position: once the refresh most recently started, which is one of the
\* connected wallet, has settled, no step of a retry of a fetchVaultData
\* chain started for another wallet changes userShareBalance or
\* userShareValue.
C25_NoLateOverwrite ==
  [][\A r \in DOMAIN runs :
       (/\ wallet # NoWallet /\ Settled(wallet)
        /\ runs[r].w # wallet /\ runs[r].rc > 0 /\ VaultStep(r)) =>
          /\ ui'.userShareBalance = ui.userShareBalance
          /\ ui'.userShareValue = ui.userShareValue
    ]_vars

====
